---- MODULE Spec2Model ----
(***************************************************************************)
(* A model of the positional decoration index of view/src/decoration.ts:   *)
(* the immutable DecorationSet tree, its update and map algorithms, the    *)
(* iterator with its heap, and the merged-spans query.                     *)
(*                                                                         *)
(* A Decoration is a record [from, to, desc]; a DecorationSet is a record  *)
(* [length, size, local, children] whose local is a sequence of            *)
(* decorations and whose children is a sequence of DecorationSets.  A      *)
(* JavaScript array index i is the sequence index i + 1.                   *)
(***************************************************************************)
EXTENDS Integers, Sequences, FiniteSets, TLC

Max(a, b) == IF a >= b THEN a ELSE b

Min(a, b) == IF a <= b THEN a ELSE b

\* The sign of a - b.  The comparators of the source subtract and only the
\* sign of the difference is ever used; biases of +-2e9 differ by 4e9, which
\* a double holds and a 32-bit integer does not.
\* The function f over 1..n as an explicit sequence.
Array(f, n) == SubSeq(f, 1, n)

Sign(a, b) == IF a < b THEN -1 ELSE IF a > b THEN 1 ELSE 0

(***************************************************************************)
(* Descriptors and decorations                                             *)
(***************************************************************************)
BIG_BIAS == 2000000000

BASE_NODE_SIZE_SHIFT == 5

BASE_NODE_SIZE == 2 ^ BASE_NODE_SIZE_SHIFT

\* new RangeDesc(spec); spec = [inclusiveStart, inclusiveEnd, attributes,
\* tagName, collapsed].  attributes is [null, class, style]: null when the
\* spec has no attributes, and otherwise the values of class and style.  A
\* class value is the sequence of its space-separated names and a style
\* value the sequence of its semicolon-separated declarations, so that
\* joining two values with the separator is concatenation; the empty
\* sequence is an absent (or empty, hence falsy) value.  tagName "" is an
\* absent tag.
RangeDesc(spec) ==
  [kind |-> "range", spec |-> spec,
   bias |-> IF spec.inclusiveStart THEN -BIG_BIAS ELSE BIG_BIAS,
   endBias |-> IF spec.inclusiveEnd THEN BIG_BIAS ELSE -BIG_BIAS,
   affectsSpans |-> (~spec.attributes.null \/ spec.tagName # "" \/ spec.collapsed)]

\* new PointDesc(spec); spec = [side].
PointDesc(spec) == [kind |-> "point", spec |-> spec, bias |-> spec.side]

Decoration(from, to, desc) == [from |-> from, to |-> to, desc |-> desc]

move(deco, offset) == Decoration(deco.from + offset, deco.to + offset, deco.desc)

heapPosOfDecoration(deco) == deco.to

(***************************************************************************)
(* Changes.  A change is a record [from, to, len]: the text from..to is    *)
(* replaced by len characters.                                             *)
(***************************************************************************)
\* change.mapPos(pos, assoc): a position before the change stays, one after
\* it shifts by the change's net length, one inside deleted text collapses
\* onto the replacement, and assoc picks the side of inserted text.
Change_mapPos(change, pos, assoc) ==
  IF pos < change.from THEN pos
  ELSE IF pos > change.to THEN pos + change.len - (change.to - change.from)
  ELSE IF assoc < 0 THEN change.from
  ELSE change.from + change.len

RECURSIVE mapPosFrom(_, _, _, _)
mapPosFrom(pos, changes, assoc, i) ==
  IF i > Len(changes) THEN pos
  ELSE mapPosFrom(Change_mapPos(changes[i], pos, assoc), changes, assoc, i + 1)

mapPos(pos, changes, assoc) == mapPosFrom(pos, changes, assoc, 1)

\* RangeDesc.map returning the mapped range even when it is empty.
Desc_map_keepsEmpty(deco, changes) ==
  [null |-> FALSE,
   deco |-> Decoration(mapPos(deco.from, changes, deco.desc.bias),
                       mapPos(deco.to, changes,
                              IF deco.desc.kind = "range" THEN deco.desc.endBias
                              ELSE deco.desc.bias),
                       deco.desc)]

\* RangeDesc.map / PointDesc.map.  The result is [null, deco].
Desc_map(deco, changes) ==
  IF deco.desc.kind = "range"
  THEN LET mapped(from, to) ==
             [null |-> ~(from < to), deco |-> Decoration(from, to, deco.desc)]
       IN mapped(mapPos(deco.from, changes, deco.desc.bias),
                 mapPos(deco.to, changes, deco.desc.endBias))
  ELSE LET mapped(pos) == [null |-> FALSE, deco |-> Decoration(pos, pos, deco.desc)]
       IN mapped(mapPos(deco.from, changes, deco.desc.bias))

RECURSIVE touchesChangeFrom(_, _, _, _)
touchesChangeFrom(from, to, changes, i) ==
  IF i > Len(changes) THEN FALSE
  ELSE LET change == changes[i]
           diff == change.len - (change.to - change.from)
       IN IF change.to >= from /\ change.from <= to THEN TRUE
          ELSE touchesChangeFrom(IF from > change.from THEN from + diff ELSE from,
                                 IF to > change.to THEN to + diff ELSE to,
                                 changes, i + 1)

touchesChange(from, to, changes) == touchesChangeFrom(from, to, changes, 1)

(***************************************************************************)
(* Sorting                                                                 *)
(***************************************************************************)
byPos(a, b) ==
  IF Sign(a.from, b.from) # 0 THEN Sign(a.from, b.from)
  ELSE Sign(a.desc.bias, b.desc.bias)

\* The index (0-based) insertSorted splices deco in at: its loop walks down
\* from the end while the element before i is not below deco.
insertIndex(target, deco) ==
  CHOOSE i \in 0..Len(target) :
    /\ i = 0 \/ byPos(target[i], deco) < 0
    /\ \A k \in (i + 1)..Len(target) : byPos(target[k], deco) >= 0

\* arr.splice(i, n, ...ins)
splice(arr, i, n, ins) == SubSeq(arr, 1, i) \o ins \o SubSeq(arr, i + n + 1, Len(arr))

insertSorted(target, deco) == splice(target, insertIndex(target, deco), 0, <<deco>>)

\* Array.prototype.sort with comparator byPos: a stable sort.  rank[i] is
\* the place of decorations[i] in the result.
sortByPos(decorations) ==
  LET n == Len(decorations)
      rank == Array([i \in 1..n |->
                      Cardinality({ j \in 1..n :
                        \/ byPos(decorations[j], decorations[i]) < 0
                        \/ byPos(decorations[j], decorations[i]) = 0 /\ j <= i })], n)
  IN Array([k \in 1..n |-> decorations[CHOOSE i \in 1..n : rank[i] = k]], n)

\* insertSorted of the first n elements of decorations, in order.
RECURSIVE insertAllSorted(_, _, _)
insertAllSorted(target, decorations, n) ==
  IF n = 0 THEN target
  ELSE insertSorted(insertAllSorted(target, decorations, n - 1), decorations[n])

moveAll(decorations, offset) ==
  Array([i \in 1..Len(decorations) |-> move(decorations[i], offset)], Len(decorations))

(***************************************************************************)
(* Sets                                                                    *)
(***************************************************************************)
DecorationSet(length, size, local, children) ==
  [length |-> length, size |-> size, local |-> local, children |-> children]

empty == DecorationSet(0, 0, <<>>, <<>>)

\* grow with the sign of the added length flipped.
grow_shrinks(this, length) ==
  DecorationSet(this.length - length, this.size, this.local, this.children)

grow(this, length) ==
  DecorationSet(this.length + length, this.size, this.local, this.children)

RECURSIVE collect(_, _)
RECURSIVE collectChildren(_, _, _)
\* The decorations collect pushes onto its target, in order.
collect(this, offset) ==
  moveAll(this.local, offset) \o collectChildren(this.children, 1, offset)

collectChildren(children, i, offset) ==
  IF i > Len(children) THEN <<>>
  ELSE collect(children[i], offset)
       \o collectChildren(children, i + 1, offset + children[i].length)

(***************************************************************************)
(* update                                                                  *)
(*                                                                         *)
(* A filter is "null" or the name of a predicate on (from, to, spec).      *)
(* updateInner and the helpers it calls return records; the fields beside  *)
(* the value they compute are                                              *)
(*   same   the returned set is the receiver object itself,                *)
(*   err    the call threw (a TypeError on an undefined array element),    *)
(*   calls  the (from, to, spec) triples the filter was invoked on,        *)
(*   nd     the contents of the shared noDecorations array afterwards.     *)
(***************************************************************************)
FilterFn(filter, from, to, spec) ==
  CASE filter = "keepAll" -> TRUE
    [] filter = "dropAll" -> FALSE
    [] filter = "dropRanges" -> from = to
    [] filter = "dropPoints" -> from < to
    [] OTHER -> TRUE

\* The loop of filterDecorations after its first n iterations.  The result
\* is [null, copy, calls]: copy is null until a decoration is dropped.
RECURSIVE filterLoop(_, _, _, _, _, _)
filterLoop(decorations, filter, filterFrom, filterTo, offset, n) ==
  IF n = 0 THEN [null |-> TRUE, copy |-> <<>>, calls |-> {}]
  ELSE LET acc == filterLoop(decorations, filter, filterFrom, filterTo, offset, n - 1)
           deco == decorations[n]
           from == deco.from + offset
           to == deco.to + offset
           outside == filterFrom > to \/ filterTo < from
           keep == outside \/ FilterFn(filter, from, to, deco.desc.spec)
           calls == IF outside THEN acc.calls
                    ELSE acc.calls \cup {<<from, to, deco.desc.spec>>}
       IN IF keep
          THEN [null |-> acc.null,
                copy |-> IF acc.null THEN acc.copy ELSE Append(acc.copy, deco),
                calls |-> calls]
          ELSE [null |-> FALSE,
                copy |-> IF acc.null THEN SubSeq(decorations, 1, n - 1) ELSE acc.copy,
                calls |-> calls]

\* filterDecorations starting from a copy rather than from null.
filterDecorations_copiesFirst(decorations, filter, filterFrom, filterTo, offset) ==
  IF filter = "null" THEN [null |-> TRUE, copy |-> <<>>, calls |-> {}]
  ELSE LET copied(f) == [null |-> FALSE, copy |-> IF f.null THEN decorations ELSE f.copy,
                         calls |-> f.calls]
       IN copied(filterLoop(decorations, filter, filterFrom, filterTo, offset,
                            Len(decorations)))

filterDecorations(decorations, filter, filterFrom, filterTo, offset) ==
  IF filter = "null" THEN [null |-> TRUE, copy |-> <<>>, calls |-> {}]
  ELSE filterLoop(decorations, filter, filterFrom, filterTo, offset, Len(decorations))

RECURSIVE SumLengths(_, _)
SumLengths(children, i) ==
  IF i > Len(children) THEN 0 ELSE children[i].length + SumLengths(children, i + 1)

RECURSIVE SumSizes(_, _)
SumSizes(children, i) ==
  IF i > Len(children) THEN 0 ELSE children[i].size + SumSizes(children, i + 1)

\* collapseSet's loop over the children: child.collect(local, -off).
RECURSIVE collapseChildren(_, _, _)
collapseChildren(children, i, off) ==
  IF i > Len(children) THEN <<>>
  ELSE collect(children[i], -off)
       \o collapseChildren(children, i + 1, off + children[i].length)

\* collapseSet taking the size before the remaining additions are pushed.
collapseSet_sizeBeforeAdd(children, local, add, start, offset, length) ==
  LET wasEmpty == Len(local) = 0
      sortedThen(collected) == IF ~wasEmpty THEN sortByPos(collected) ELSE collected
      pushed(sorted) ==
        DecorationSet(length, Len(sorted),
                      sorted \o moveAll(SubSeq(add, start + 1, Len(add)), -offset), <<>>)
  IN pushed(sortedThen(local \o collapseChildren(children, 1, 0)))

\* collapseSet starting the loop over the additions one index late.
collapseSet_skipsFirstAdd(children, local, add, start, offset, length) ==
  LET wasEmpty == Len(local) = 0
      sortedThen(collected) == IF ~wasEmpty THEN sortByPos(collected) ELSE collected
      pushed(all) == DecorationSet(length, Len(all), all, <<>>)
  IN pushed(sortedThen(local \o collapseChildren(children, 1, 0))
            \o moveAll(SubSeq(add, start + 2, Len(add)), -offset))

\* collapseSet leaving the children where they are.
collapseSet_keepsChildren(children, local, add, start, offset, length) ==
  LET pushed(all) == DecorationSet(length, Len(all) + SumSizes(children, 1), all, children)
  IN pushed(local \o moveAll(SubSeq(add, start + 1, Len(add)), -offset))

collapseSet(children, local, add, start, offset, length) ==
  LET wasEmpty == Len(local) = 0
      sortedThen(collected) == IF ~wasEmpty THEN sortByPos(collected) ELSE collected
      pushed(all) == DecorationSet(length, Len(all), all, <<>>)
  IN pushed(sortedThen(local \o collapseChildren(children, 1, 0))
            \o moveAll(SubSeq(add, start + 1, Len(add)), -offset))

\* The index the scan of the additions stops at for a child ending at endPos.
RECURSIVE scanAdditions(_, _, _)
scanAdditions(decorations, decI, endPos) ==
  IF decI < Len(decorations) /\ ~(decorations[decI + 1].from >= endPos)
  THEN scanAdditions(decorations, decI + 1, endPos)
  ELSE decI

RECURSIVE updateInner(_, _, _, _, _, _, _, _)
RECURSIVE updateChildren(_, _, _, _, _, _, _, _)
RECURSIVE appendDecorations(_, _, _, _, _, _, _, _, _)
RECURSIVE rebalanceChildren(_, _, _, _)
RECURSIVE rebalanceLoop(_, _)
RECURSIVE update(_, _, _, _, _, _)

\* The loop of updateInner over this.children; i is the sequence index of
\* the child and st the loop's variables.
updateChildren(this, decorations, filter, filterFrom, filterTo, offset, i, st) ==
  IF i > Len(this.children) \/ st.err THEN st
  ELSE
    LET child == this.children[i]
        endPos == st.pos + child.length
        \* decI is where the scan of the additions stops; of those it passed,
        \* toLocal reach past the child's end and localDeco go into the child.
        split(decI, toLocal, localDeco) ==
          LET recurse == localDeco # <<>>
                         \/ (filter # "null" /\ filterFrom <= endPos /\ filterTo >= st.pos)
              advance(r, local) ==
                IF r.err THEN [st EXCEPT !.err = TRUE]
                ELSE updateChildren(this, decorations, filter, filterFrom, filterTo, offset,
                       i + 1,
                       [local |-> local,
                        localNull |-> st.localNull /\ toLocal = <<>>,
                        children |-> IF ~r.same
                                     THEN Append(IF st.childrenNull
                                                 THEN SubSeq(this.children, 1, i - 1)
                                                 ELSE st.children, r.set)
                                     ELSE IF ~st.childrenNull THEN Append(st.children, r.set)
                                     ELSE st.children,
                        childrenNull |-> st.childrenNull /\ r.same,
                        size |-> st.size + r.set.size,
                        decI |-> decI,
                        pos |-> endPos,
                        err |-> FALSE,
                        calls |-> st.calls \cup r.calls,
                        nd |-> r.nd])
          IN advance(IF recurse
                     THEN updateInner(child, localDeco, filter, filterFrom, filterTo,
                                      st.pos, child.length, st.nd)
                     ELSE [set |-> child, same |-> TRUE, err |-> FALSE, calls |-> {},
                           nd |-> st.nd],
                     IF toLocal = <<>> THEN st.local
                     ELSE insertAllSorted(IF st.localNull THEN this.local ELSE st.local,
                                          moveAll(toLocal, -offset), Len(toLocal)))
        scanned(decI) ==
          LET taken == SubSeq(decorations, st.decI + 1, decI)
          IN split(decI, SelectSeq(taken, LAMBDA d: d.to > endPos),
                   SelectSeq(taken, LAMBDA d: ~(d.to > endPos)))
    IN scanned(scanAdditions(decorations, st.decI, endPos))

updateInner(this, decorations, filter, filterFrom, filterTo, offset, length, nd) ==
  LET filtered(f) ==
        updateChildren(this, decorations, filter, filterFrom, filterTo, offset, 1,
          [local |-> f.copy, localNull |-> f.null,
           children |-> <<>>, childrenNull |-> TRUE,
           size |-> 0, decI |-> 0, pos |-> offset, err |-> FALSE,
           calls |-> f.calls, nd |-> nd])
      finish(st) ==
        LET local == IF st.localNull THEN this.local ELSE st.local
            children == IF st.childrenNull THEN this.children ELSE st.children
            size == st.size + Len(local) + Len(decorations) - st.decI
            childSize == Max(BASE_NODE_SIZE, size \div (2 ^ BASE_NODE_SIZE_SHIFT))
            thrown == [set |-> this, same |-> FALSE, err |-> TRUE, calls |-> st.calls,
                       nd |-> st.nd]
            rebalance == ~st.childrenNull \/ st.decI < Len(decorations)
            built(a, b) ==
              IF a.err \/ b.err THEN thrown
              ELSE [set |-> DecorationSet(length, size, b.local, b.children),
                    same |-> FALSE, err |-> FALSE, calls |-> st.calls, nd |-> b.nd]
            appended(a) ==
              built(a, IF rebalance /\ ~a.err
                       THEN rebalanceChildren(a.local, a.children, childSize, a.nd)
                       ELSE a)
        IN IF st.err THEN thrown
           ELSE IF st.localNull /\ st.childrenNull /\ st.decI = Len(decorations)
           THEN [set |-> this, same |-> TRUE, err |-> FALSE, calls |-> st.calls,
                 nd |-> st.nd]
           ELSE IF size <= BASE_NODE_SIZE
           THEN [set |-> collapseSet(children, local, decorations, st.decI, offset, length),
                 same |-> FALSE, err |-> FALSE, calls |-> st.calls, nd |-> st.nd]
           ELSE appended(IF st.decI < Len(decorations)
                         THEN appendDecorations(local, children, decorations, st.decI,
                                                offset, length, st.pos, childSize, st.nd)
                         ELSE [local |-> local, children |-> children, err |-> FALSE,
                               nd |-> st.nd])
  IN finish(filtered(filterDecorations(this.local, filter, filterFrom, filterTo, offset)))

\* appendDecorations from index i (0-based) of the sorted additions.
appendDecorations(local, children, decorations, i, offset, length, pos, childSize, nd) ==
  IF ~(i < Len(decorations))
  THEN [local |-> local, children |-> children, err |-> FALSE, nd |-> nd]
  ELSE
    LET end == Min(i + childSize, Len(decorations))
        endPos == IF end = Len(decorations) THEN offset + length
                  ELSE decorations[end + 1].from
        chunk == SubSeq(decorations, i + 1, end)
        toLocal == SelectSeq(chunk, LAMBDA d: d.to > endPos)
        add == SelectSeq(chunk, LAMBDA d: ~(d.to > endPos))
        pushed(local1, r) ==
          IF add # <<>> /\ r.err
          THEN [local |-> local1, children |-> children, err |-> TRUE, nd |-> r.nd]
          ELSE appendDecorations(local1,
                                 IF add = <<>> THEN children ELSE Append(children, r.set),
                                 decorations, end, offset, length,
                                 IF add = <<>> THEN pos ELSE endPos,
                                 childSize,
                                 IF add = <<>> THEN nd ELSE r.nd)
    IN pushed(insertAllSorted(local, moveAll(toLocal, -offset), Len(toLocal)),
              updateInner(empty, add, "null", 0, 0, pos, endPos - pos, nd))

\* update passing the receiver's length on as the new length.
update_keepsLength(this, decorations, filter, filterFrom, filterTo, nd) ==
  updateInner(this, IF Len(decorations) > 0 THEN sortByPos(decorations) ELSE decorations,
              filter, filterFrom, filterTo, 0, this.length, nd)

update(this, decorations, filter, filterFrom, filterTo, nd) ==
  LET maxLen == IF decorations = <<>> THEN this.length
                ELSE Max(this.length,
                         CHOOSE m \in {decorations[i].to : i \in 1..Len(decorations)} :
                           \A i \in 1..Len(decorations) : decorations[i].to <= m)
  IN updateInner(this, IF Len(decorations) > 0 THEN sortByPos(decorations) ELSE decorations,
                 filter, filterFrom, filterTo, 0, maxLen, nd)

(***************************************************************************)
(* rebalanceChildren.  The loop's variables are the record st:             *)
(*   local     the caller's array (mutated in place),                      *)
(*   aliased   the callee's variable local was reassigned to noDecorations *)
(*             (line 575), so its later reads and writes go to nd,         *)
(*   nd        the shared noDecorations array,                             *)
(*   children, i, off, err.                                                *)
(***************************************************************************)
curLocal(st) == IF st.aliased THEN st.nd ELSE st.local

withLocal(st, v) == IF st.aliased THEN [st EXCEPT !.nd = v] ELSE [st EXCEPT !.local = v]

\* The scan for the end of a wrapper: [joinTo, size, length].
RECURSIVE joinScan(_, _, _)
joinScan(children, childSize, w) ==
  IF w.joinTo < Len(children) /\ ~(w.size + children[w.joinTo + 1].size > childSize)
  THEN joinScan(children, childSize,
                [joinTo |-> w.joinTo + 1,
                 size |-> w.size + children[w.joinTo + 1].size,
                 length |-> w.length + children[w.joinTo + 1].length])
  ELSE w

\* The loop that moves the parent's locals inside off..off+length into the
\* wrapper; j is 0-based and p is [st, joinedLocals].
RECURSIVE reparentLoop(_, _, _)
reparentLoop(p, j, length) ==
  LET st == p.st
      local == curLocal(st)
  IN IF ~(j < Len(local)) THEN p
     ELSE LET deco == local[j + 1]
          IN IF deco.from >= st.off /\ deco.to <= st.off + length
             THEN LET removed == withLocal(st, splice(local, j, 1, <<>>))
                      st1 == IF Len(curLocal(removed)) = 0
                             THEN [removed EXCEPT !.aliased = TRUE]
                             ELSE removed
                  IN reparentLoop([st |-> st1,
                                   joinedLocals |-> Append(p.joinedLocals, move(deco, -st.off))],
                                  j, length)
             ELSE reparentLoop(p, j + 1, length)

rebalanceLoop(st, childSize) ==
  IF st.err \/ ~(st.i < Len(st.children)) THEN st
  ELSE IF st.i < 0 THEN [st EXCEPT !.err = TRUE]
  ELSE
    LET children == st.children
        i == st.i
        child == children[i + 1]
        next == children[i + 2]
    IN IF child.size = 0 /\ (i > 0 \/ Len(children) = 1)
       THEN \* Drop empty node
         LET dropped == splice(children, i, 1, <<>>)
         IN rebalanceLoop(
              [st EXCEPT !.i = i - 1,
                         !.children = IF i - 1 >= 0
                                      THEN [dropped EXCEPT ![i] = grow(dropped[i], child.length)]
                                      ELSE dropped],
              childSize)
       ELSE IF child.size > 2 * childSize /\ Len(child.local) < child.length \div 2
       THEN \* Unwrap an overly big node
         LET st1 == withLocal(st, insertAllSorted(curLocal(st), moveAll(child.local, st.off),
                                                  Len(child.local)))
         IN rebalanceLoop([st1 EXCEPT !.children = splice(children, i, 1, child.children)],
                          childSize)
       ELSE IF /\ Len(child.children) = 0
               /\ i < Len(children) - 1
               /\ next.size + child.size <= BASE_NODE_SIZE
               /\ Len(next.children) = 0
       THEN \* Join two small leaf nodes
         rebalanceLoop(
           [st EXCEPT !.children =
                        splice(children, i, 2,
                               <<DecorationSet(child.length + next.length,
                                               child.size + next.size,
                                               child.local \o moveAll(next.local, child.length),
                                               <<>>)>>),
                      !.off = st.off + child.length + next.length],
           childSize)
       ELSE \* Join a number of nodes into a wrapper node
         LET w0 == [joinTo |-> i + 1, size |-> child.size, length |-> child.length]
             replaced(w, p, u) ==
               IF u.err THEN [p.st EXCEPT !.err = TRUE]
               ELSE rebalanceLoop(
                      [p.st EXCEPT !.children = splice(children, i, w.joinTo - i, <<u.set>>),
                                   !.i = w.joinTo,
                                   !.off = st.off + w.length,
                                   !.nd = u.nd],
                      childSize)
             reparented(w, joined, p) ==
               replaced(w, p, IF Len(p.joinedLocals) > 0
                              THEN update(joined, sortByPos(p.joinedLocals), "null",
                                          0, joined.length, p.st.nd)
                              ELSE [set |-> joined, same |-> TRUE, err |-> FALSE,
                                    calls |-> {}, nd |-> p.st.nd])
             wrap(w) ==
               IF w.joinTo > i + 1
               THEN reparented(w, DecorationSet(w.length, w.size, <<>>,
                                                SubSeq(children, i + 1, w.joinTo)),
                               reparentLoop([st |-> st, joinedLocals |-> <<>>], 0, w.length))
               ELSE rebalanceLoop([st EXCEPT !.i = i + 1, !.off = st.off + child.length],
                                  childSize)
         IN wrap(IF child.size < childSize \div 2 THEN joinScan(children, childSize, w0)
                 ELSE w0)

\* The result is [local, children, err, nd]: the caller's two arrays as the
\* call leaves them.
rebalanceChildren(local, children, childSize, nd) ==
  LET left(st) == [local |-> st.local, children |-> st.children, err |-> st.err, nd |-> st.nd]
  IN left(rebalanceLoop([local |-> local, aliased |-> FALSE, nd |-> nd,
                         children |-> children, i |-> 0, off |-> 0, err |-> FALSE],
                        childSize))

\* DecorationSet.of; a single decoration is the batch holding it.
of(decorations, nd) ==
  IF Len(decorations) > 0 THEN update(empty, decorations, "null", 0, empty.length, nd)
  ELSE [set |-> empty, same |-> TRUE, err |-> FALSE, calls |-> {}, nd |-> nd]

(***************************************************************************)
(* map.  mapInner returns [set, same, escaped, err]; a null escaped list   *)
(* is the empty sequence (the source only tests it for being non-null, and *)
(* it is non-null exactly when it has an element).                         *)
(***************************************************************************)
\* The loop over this.local after its first n iterations: [newLocal, escaped].
RECURSIVE mapLocals(_, _, _, _)
mapLocals(local, changes, newLength, n) ==
  IF n = 0 THEN [newLocal |-> <<>>, escaped |-> <<>>]
  ELSE LET acc == mapLocals(local, changes, newLength, n - 1)
           placed(mapped) ==
             IF ~mapped.null /\ (mapped.deco.from < 0 \/ mapped.deco.to > newLength)
             THEN [acc EXCEPT !.escaped = Append(@, mapped.deco)]
             ELSE IF ~mapped.null THEN [acc EXCEPT !.newLocal = Append(@, mapped.deco)]
             ELSE acc
       IN placed(Desc_map(local[n], changes))

\* The loop over a child's escaped decorations after its first n
\* iterations, from st0 = [newLocal, newLocalNull, escaped].
RECURSIVE rehome(_, _, _, _, _, _)
rehome(thisLocal, innerEscaped, shift, newLength, n, st0) ==
  IF n = 0 THEN st0
  ELSE LET st == rehome(thisLocal, innerEscaped, shift, newLength, n - 1, st0)
           deco == move(innerEscaped[n], shift)
       IN IF deco.from < 0 \/ deco.to > newLength
          THEN [st EXCEPT !.escaped = Append(@, deco)]
          ELSE [st EXCEPT !.newLocalNull = FALSE,
                          !.newLocal = insertSorted(IF st.newLocalNull THEN thisLocal
                                                    ELSE st.newLocal, deco)]

RECURSIVE mapInner(_, _, _, _, _)
RECURSIVE mapChildren(_, _, _, _, _, _)

\* The loop of mapInner over this.children; i is 0-based and st holds the
\* loop's variables.
mapChildren(this, changes, newStart, newLength, i, st) ==
  IF ~(i < Len(this.children)) \/ st.err THEN st
  ELSE
    LET child == this.children[i + 1]
        oldChildEnd == st.oldPos + child.length
        base == IF st.newChildrenNull THEN SubSeq(this.children, 1, i) ELSE st.newChildren
        \* newChild is the child after the changes, changed tells that it is
        \* another object than child, and h holds newLocal and escaped after
        \* the child's escaped decorations were taken in.
        place(touches, inner, newChildEnd, newChild, changed, h) ==
          LET drop == newChild.size = 0
                      /\ (newChild.length = 0 \/ i > 0 \/ i = Len(this.children))
              donate == drop /\ newChild.length > 0 /\ i > 0
              undefinedLast == donate /\ Len(base) < i
              newChildren ==
                IF changed
                THEN IF drop
                     THEN IF donate /\ ~undefinedLast
                          THEN [base EXCEPT ![i] =
                                  DecorationSet(base[i].length + newChild.length,
                                                base[i].size, base[i].local,
                                                base[i].children)]
                          ELSE base
                     ELSE Append(base, newChild)
                ELSE IF ~st.newChildrenNull THEN Append(st.newChildren, newChild)
                ELSE st.newChildren
          IN IF (touches /\ inner.err) \/ (changed /\ undefinedLast)
             THEN [st EXCEPT !.err = TRUE]
             ELSE mapChildren(this, changes, newStart, newLength, i + 1,
                    [newLocal |-> h.newLocal, newLocalNull |-> h.newLocalNull,
                     escaped |-> h.escaped,
                     newChildren |-> newChildren,
                     newChildrenNull |-> st.newChildrenNull /\ ~changed,
                     newSize |-> st.newSize + newChild.size,
                     oldPos |-> oldChildEnd, newPos |-> newChildEnd, err |-> FALSE])
        mapped(touches, inner, newChildEnd) ==
          LET resized == ~touches /\ newChildEnd - st.newPos # oldChildEnd - st.oldPos
          IN place(touches, inner, newChildEnd,
                   IF touches THEN inner.set
                   ELSE IF resized
                   THEN DecorationSet(newChildEnd - st.newPos, child.size,
                                      child.local, child.children)
                   ELSE child,
                   IF touches THEN ~inner.same ELSE resized,
                   IF touches
                   THEN rehome(this.local, inner.escaped, st.newPos - newStart, newLength,
                               Len(inner.escaped),
                               [newLocal |-> st.newLocal, newLocalNull |-> st.newLocalNull,
                                escaped |-> st.escaped])
                   ELSE [newLocal |-> st.newLocal, newLocalNull |-> st.newLocalNull,
                         escaped |-> st.escaped])
        ended(newChildEnd) ==
          mapped(touchesChange(st.oldPos, oldChildEnd, changes),
                 mapInner(child, changes, st.oldPos, st.newPos, newChildEnd),
                 newChildEnd)
    IN ended(mapPos(st.oldPos + child.length, changes, 1))

mapInner(this, changes, oldStart, newStart, newEnd) ==
  LET newLength == newEnd - newStart
      locals(l) ==
        mapChildren(this, changes, newStart, newLength, 0,
          [newLocal |-> l.newLocal, newLocalNull |-> Len(this.local) = 0,
           escaped |-> l.escaped,
           newChildren |-> <<>>, newChildrenNull |-> TRUE,
           newSize |-> 0, oldPos |-> oldStart, newPos |-> newStart, err |-> FALSE])
      finish(st) ==
        LET newLocal == IF st.newLocalNull THEN this.local ELSE st.newLocal
            same == newLength = this.length /\ st.newChildrenNull /\ st.newLocalNull
        IN IF st.err THEN [set |-> this, same |-> FALSE, escaped |-> <<>>, err |-> TRUE]
           ELSE [set |-> IF same THEN this
                         ELSE DecorationSet(newLength, st.newSize + Len(newLocal), newLocal,
                                            IF st.newChildrenNull THEN this.children
                                            ELSE st.newChildren),
                 same |-> same, escaped |-> st.escaped, err |-> FALSE]
  IN finish(locals(mapLocals(this.local, changes, newLength, Len(this.local))))

\* map without its fast path.
map_alwaysMaps(this, isEmpty, changes) ==
  LET result(r) == [set |-> r.set, same |-> r.same, err |-> r.err]
  IN result(mapInner(this, changes, 0, 0, mapPos(this.length, changes, 1)))

\* set.map(changes); isEmpty says that the receiver is the object
\* DecorationSet.empty.  The result is [set, same, err].
map(this, isEmpty, changes) ==
  IF Len(changes) = 0 \/ isEmpty THEN [set |-> this, same |-> TRUE, err |-> FALSE]
  ELSE LET result(r) == [set |-> r.set, same |-> r.same, err |-> r.err]
       IN result(mapInner(this, changes, 0, 0, mapPos(this.length, changes, 1)))

(***************************************************************************)
(* The iterator.  An iterator is its stack, a sequence of IteratedSet      *)
(* records [offset, set, index].  A LocalSet is [type, offset,             *)
(* decorations, index, next] where next is 0 for null and otherwise the    *)
(* number of the iterator it points back to.                               *)
(***************************************************************************)
IteratedSet(offset, set) == [offset |-> offset, set |-> set, index |-> -1]

DecorationSetIterator(set, offset) == <<IteratedSet(offset, set)>>

LocalSet(offset, decorations, next) ==
  [type |-> "LocalSet", offset |-> offset, decorations |-> decorations,
   index |-> 0, next |-> next]

\* iterator.next taking the end of a child for its start.
RECURSIVE next_startsAtEnd(_, _, _)
next_startsAtEnd(stack, skip, self) ==
  IF Len(stack) = 0 THEN [stack |-> stack, null |-> TRUE, value |-> LocalSet(0, <<>>, 0)]
  ELSE
    LET n == Len(stack)
        top == stack[n]
        fresh == top.index < 0
        index == IF fresh THEN 0 ELSE top.index
        marked == [stack EXCEPT ![n].index = index]
    IN IF fresh /\ Len(top.set.local) > 0
       THEN [stack |-> marked, null |-> FALSE,
             value |-> LocalSet(top.offset, top.set.local,
                                IF Len(top.set.children) # 0 THEN 0 ELSE self)]
       ELSE IF index = Len(top.set.children)
       THEN next_startsAtEnd(SubSeq(stack, 1, n - 1), skip, self)
       ELSE LET nextSet == top.set.children[index + 1]
                start == top.offset + nextSet.length
                advanced == [stack EXCEPT ![n].index = index + 1,
                                          ![n].offset = top.offset + nextSet.length]
            IN IF skip > nextSet.length
               THEN next_startsAtEnd(advanced, skip - nextSet.length, self)
               ELSE next_startsAtEnd(Append(advanced, IteratedSet(start, nextSet)), skip, self)

\* iterator.next bypassing also the child that ends where the skip ends.
RECURSIVE next_skipsEqual(_, _, _)
next_skipsEqual(stack, skip, self) ==
  IF Len(stack) = 0 THEN [stack |-> stack, null |-> TRUE, value |-> LocalSet(0, <<>>, 0)]
  ELSE
    LET n == Len(stack)
        top == stack[n]
        fresh == top.index < 0
        index == IF fresh THEN 0 ELSE top.index
        marked == [stack EXCEPT ![n].index = index]
    IN IF fresh /\ Len(top.set.local) > 0
       THEN [stack |-> marked, null |-> FALSE,
             value |-> LocalSet(top.offset, top.set.local,
                                IF Len(top.set.children) # 0 THEN 0 ELSE self)]
       ELSE IF index = Len(top.set.children)
       THEN next_skipsEqual(SubSeq(stack, 1, n - 1), skip, self)
       ELSE LET nextSet == top.set.children[index + 1]
                start == top.offset
                advanced == [stack EXCEPT ![n].index = index + 1,
                                          ![n].offset = top.offset + nextSet.length]
            IN IF skip >= nextSet.length
               THEN next_skipsEqual(advanced, skip - nextSet.length, self)
               ELSE next_skipsEqual(Append(advanced, IteratedSet(start, nextSet)), skip, self)

\* iterator.next(skip), for the iterator numbered self: [stack, null, value].
RECURSIVE next(_, _, _)
next(stack, skip, self) ==
  IF Len(stack) = 0 THEN [stack |-> stack, null |-> TRUE, value |-> LocalSet(0, <<>>, 0)]
  ELSE
    LET n == Len(stack)
        top == stack[n]
        fresh == top.index < 0
        index == IF fresh THEN 0 ELSE top.index
        marked == [stack EXCEPT ![n].index = index]
    IN IF fresh /\ Len(top.set.local) > 0
       THEN [stack |-> marked, null |-> FALSE,
             value |-> LocalSet(top.offset, top.set.local,
                                IF Len(top.set.children) # 0 THEN 0 ELSE self)]
       ELSE IF index = Len(top.set.children)
       THEN next(SubSeq(stack, 1, n - 1), skip, self)
       ELSE LET nextSet == top.set.children[index + 1]
                start == top.offset
                advanced == [stack EXCEPT ![n].index = index + 1,
                                          ![n].offset = top.offset + nextSet.length]
            IN IF skip > nextSet.length
               THEN next(advanced, skip - nextSet.length, self)
               ELSE next(Append(advanced, IteratedSet(start, nextSet)), skip, self)

(***************************************************************************)
(* The heap.  A heap element is a LocalSet or an active decoration         *)
(* [type, deco, id]; id tells apart the objects of equal decorations.      *)
(***************************************************************************)
heapPos(elt) ==
  IF elt.type = "LocalSet" THEN elt.decorations[elt.index + 1].from + elt.offset
  ELSE heapPosOfDecoration(elt.deco)

descOf(elt) ==
  IF elt.type = "LocalSet" THEN elt.decorations[elt.index + 1].desc ELSE elt.deco.desc

compareHeapable(a, b) ==
  IF Sign(heapPos(a), heapPos(b)) # 0 THEN Sign(heapPos(a), heapPos(b))
  ELSE Sign(descOf(a).bias, descOf(b).bias)

\* The sift-up loop of addToHeap; index is 0-based.
RECURSIVE siftUp(_, _, _)
siftUp(heap, elt, index) ==
  IF ~(index > 0) THEN heap
  ELSE LET parentIndex == index \div 2
           parent == heap[parentIndex + 1]
       IN IF compareHeapable(elt, parent) >= 0 THEN heap
          ELSE siftUp([heap EXCEPT ![index + 1] = parent, ![parentIndex + 1] = elt],
                      elt, parentIndex)

addToHeap(heap, elt) == siftUp(Append(heap, elt), elt, Len(heap))

\* The sift-down loop of takeFromHeap; index is 0-based.
RECURSIVE siftDown(_, _, _)
siftDown(heap, replacement, index) ==
  LET left == 2 * index + 1
      useRight == left + 1 < Len(heap)
                  /\ compareHeapable(heap[left + 1], heap[left + 2]) >= 0
      childIndex == IF useRight THEN left + 1 ELSE left
      child == heap[childIndex + 1]
  IN IF left >= Len(heap) THEN heap
     ELSE IF compareHeapable(replacement, child) < 0 THEN heap
     ELSE siftDown([heap EXCEPT ![childIndex + 1] = replacement, ![index + 1] = child],
                   replacement, childIndex)

\* takeFromHeap: [elt, heap].
takeFromHeap(heap) ==
  LET elt == heap[1]
      replacement == heap[Len(heap)]
      popped == SubSeq(heap, 1, Len(heap) - 1)
  IN IF Len(popped) = 0 THEN [elt |-> elt, heap |-> popped]
     ELSE [elt |-> elt,
           heap |-> siftDown([popped EXCEPT ![1] = replacement], replacement, 0)]

\* addIterToHeap on the iterator numbered self: [heap, iters].
RECURSIVE addIterToHeap(_, _, _, _)
addIterToHeap(heap, iters, self, skip) ==
  LET taken(n) ==
        IF n.null THEN [heap |-> heap, iters |-> [iters EXCEPT ![self] = n.stack]]
        ELSE IF n.value.next # 0
        THEN [heap |-> addToHeap(heap, n.value), iters |-> [iters EXCEPT ![self] = n.stack]]
        ELSE addIterToHeap(addToHeap(heap, n.value), [iters EXCEPT ![self] = n.stack],
                           self, skip)
  IN taken(next(iters[self], skip, self))

(***************************************************************************)
(* The spans builder.  A DecoratedRange is [from, to, tagName, attrs],     *)
(* with tagName "" for null and attrs [class, style] with the empty        *)
(* sequence for an absent attribute (attrs null is both absent).           *)
(***************************************************************************)
\* The loop of build after its first n iterations: [tagName, attrs].
RECURSIVE buildFrom(_, _)
buildFrom(ranges, n) ==
  IF n = 0 THEN [tagName |-> "", attrs |-> [class |-> <<>>, style |-> <<>>]]
  ELSE LET acc == buildFrom(ranges, n - 1)
           spec == ranges[n].deco.desc.spec
           style == IF spec.attributes.null \/ spec.attributes.style = <<>>
                    THEN acc.attrs.style
                    ELSE acc.attrs.style \o spec.attributes.style
           class == IF spec.attributes.null \/ spec.attributes.class = <<>>
                    THEN acc.attrs.class
                    ELSE acc.attrs.class \o spec.attributes.class
       IN [tagName |-> IF spec.tagName # "" THEN spec.tagName ELSE acc.tagName,
           attrs |-> [class |-> class, style |-> style]]

build(from, to, ranges) ==
  LET merged(m) == [from |-> from, to |-> to, tagName |-> m.tagName, attrs |-> m.attrs]
  IN merged(buildFrom(ranges, Len(ranges)))

\* The seeding loop: one iterator per set, in the order of sets; a set of
\* size 0 gets an iterator that is never used.
RECURSIVE seed(_, _, _, _)
seed(sets, from, i, acc) ==
  IF i > Len(sets) THEN acc
  ELSE seed(sets, from, i + 1,
            IF sets[i].size > 0 THEN addIterToHeap(acc.heap, acc.iters, i, from) ELSE acc)

\* active.indexOf(deco): the 1-based index of the object, 0 when absent.
indexOfId(active, id) ==
  IF \E k \in 1..Len(active) : active[k].id = id
  THEN CHOOSE k \in 1..Len(active) : active[k].id = id
  ELSE 0

\* One iteration of the main loop; st is [heap, iters, result, active, pos,
\* nextId, done], done once the loop has ended (the heap is empty, or break).
spansStep(st, from, to) ==
  IF st.done \/ ~(Len(st.heap) > 0) THEN [st EXCEPT !.done = TRUE]
  ELSE
    LET \* the element taken is a LocalSet: h is [heap, iters] once the set
        \* was advanced or replaced by its iterator's next one
        started(elt, h) ==
          LET deco == elt.decorations[elt.index + 1]
              st1 == [st EXCEPT !.heap = h.heap, !.iters = h.iters]
              moved == move(deco, elt.offset)
              emit == moved.from > st.pos
              act == [type |-> "Decoration", deco |-> moved, id |-> st.nextId]
          IN IF deco.to + elt.offset < from THEN st1
             ELSE IF deco.from + elt.offset > to THEN [st1 EXCEPT !.done = TRUE]
             ELSE IF deco.desc.kind = "range" /\ deco.desc.affectsSpans
             THEN [st1 EXCEPT
                     !.result = IF emit
                                THEN Append(@, build(st.pos, moved.from, st.active))
                                ELSE @,
                     !.pos = IF emit THEN moved.from ELSE @,
                     !.active = Append(@, act),
                     !.heap = addToHeap(h.heap, act),
                     !.nextId = @ + 1]
             ELSE st1
        \* the element taken is a decoration that ends here
        ended(elt, heap) ==
          LET deco == elt.deco
              emit == deco.to > st.pos
              found(k) ==
                [st EXCEPT
                   !.heap = heap,
                   !.result = IF emit THEN Append(@, build(st.pos, deco.to, st.active))
                              ELSE @,
                   !.pos = IF emit THEN deco.to ELSE @,
                   !.active = splice(@, (IF k = 0 THEN Len(@) ELSE k) - 1, 1, <<>>)]
          IN IF deco.to >= to THEN [st EXCEPT !.heap = heap, !.done = TRUE]
             ELSE found(indexOfId(st.active, elt.id))
        taken(elt, heap) ==
          IF elt.type = "LocalSet"
          THEN started(elt,
                       IF elt.index + 1 < Len(elt.decorations)
                       THEN [heap |-> addToHeap(heap, [elt EXCEPT !.index = elt.index + 1]),
                             iters |-> st.iters]
                       ELSE IF elt.next # 0
                       THEN addIterToHeap(heap, st.iters, elt.next, 0)
                       ELSE [heap |-> heap, iters |-> st.iters])
          ELSE ended(elt, heap)
        took(t) == taken(t.elt, t.heap)
    IN took(takeFromHeap(st.heap))

\* The first n iterations of the main loop.
RECURSIVE spansLoop(_, _, _, _)
spansLoop(st, from, to, n) ==
  IF n = 0 THEN st
  ELSE IF n = 1 THEN spansStep(st, from, to)
  ELSE LET st1 == spansLoop(st, from, to, n \div 2)
       IN IF st1.done THEN st1 ELSE spansLoop(st1, from, to, n - (n \div 2))

\* The main loop takes each decoration of the sets off the heap at most
\* twice: at its start, and at its end when it is an active range.
RECURSIVE totalSize(_, _)
totalSize(sets, i) ==
  IF i > Len(sets) THEN 0 ELSE Len(collect(sets[i], 0)) + totalSize(sets, i + 1)

\* decoratedSpansInRange without the span that closes the range.
decoratedSpansInRange_noTail(sets, from, to) ==
  LET seeded(s) ==
        spansLoop([heap |-> s.heap, iters |-> s.iters, result |-> <<>>,
                   active |-> <<>>, pos |-> from, nextId |-> 1, done |-> FALSE],
                  from, to, 2 * totalSize(sets, 1) + 1)
      looped(st) == st.result
  IN looped(seeded(seed(sets, from, 1,
                        [heap |-> <<>>,
                         iters |-> [i \in 1..Len(sets) |->
                                      DecorationSetIterator(sets[i], 0)]])))

decoratedSpansInRange(sets, from, to) ==
  LET seeded(s) ==
        spansLoop([heap |-> s.heap, iters |-> s.iters, result |-> <<>>,
                   active |-> <<>>, pos |-> from, nextId |-> 1, done |-> FALSE],
                  from, to, 2 * totalSize(sets, 1) + 1)
      looped(st) == IF st.pos < to THEN Append(st.result, build(st.pos, to, st.active))
           ELSE st.result
  IN looped(seeded(seed(sets, from, 1,
                        [heap |-> <<>>,
                         iters |-> [i \in 1..Len(sets) |->
                                      DecorationSetIterator(sets[i], 0)]])))

(***************************************************************************)
(* Snippets (autocomplete/src/snippet.ts)                                  *)
(***************************************************************************)
FieldRange(field, from, to) == [field |-> field, from |-> from, to |-> to]

\* FieldRange.map; changes.mapPos is the fold of mapPos over the changes.
FieldRange_map(r, changes) ==
  FieldRange(r.field, mapPos(r.from, changes, -1), mapPos(r.to, changes, 1))

\* A value of the snippetState field: null, or an ActiveSnippet.  The deco
\* field of an ActiveSnippet is a function of its ranges and is left out.
ActiveSnippet(ranges, active) == [null |-> FALSE, ranges |-> ranges, active |-> active]

NoSnippet == [null |-> TRUE, ranges |-> <<>>, active |-> 0]

\* ActiveSnippet.map
ActiveSnippet_map(value, changes) ==
  ActiveSnippet(Array([i \in 1..Len(value.ranges) |->
                         FieldRange_map(value.ranges[i], changes)],
                      Len(value.ranges)),
                value.active)

\* ActiveSnippet.selectionInsideField taking a range of any field.
selectionInsideField_anyField(value, sel) ==
  \A i \in 1..Len(sel) :
    \E j \in 1..Len(value.ranges) :
      /\ value.ranges[j].from <= sel[i].from
      /\ value.ranges[j].to >= sel[i].to

\* ActiveSnippet.selectionInsideField
selectionInsideField(value, sel) ==
  \A i \in 1..Len(sel) :
    \E j \in 1..Len(value.ranges) :
      /\ value.ranges[j].field = value.active
      /\ value.ranges[j].from <= sel[i].from
      /\ value.ranges[j].to >= sel[i].to

\* The effects a transaction may carry, and a transaction: its changes, the
\* selection it sets (if any) and its effects.
setActive(value) == [type |-> "setActive", value |-> value, field |-> 0]

moveToField(field) == [type |-> "moveToField", value |-> NoSnippet, field |-> field]

NoSelection == [set |-> FALSE, ranges |-> <<>>]

Selection(ranges) == [set |-> TRUE, ranges |-> ranges]

Transaction(changes, selection, effects) ==
  [changes |-> changes, selection |-> selection, effects |-> effects]

docChanged(t) == Len(t.changes) > 0

\* snippetState.create
create == NoSnippet

\* snippetState.update from its i-th effect on.
RECURSIVE snippetState_updateFrom(_, _, _)
snippetState_updateFrom(value, t, i) ==
  IF i <= Len(t.effects)
  THEN IF t.effects[i].type = "setActive" THEN t.effects[i].value
       ELSE IF t.effects[i].type = "moveToField" /\ ~value.null
            THEN ActiveSnippet(value.ranges, t.effects[i].field)
            ELSE snippetState_updateFrom(value, t, i + 1)
  ELSE LET selected(v) ==
             IF ~v.null /\ t.selection.set /\ ~selectionInsideField(v, t.selection.ranges)
             THEN NoSnippet ELSE v
       IN selected(IF ~value.null /\ docChanged(t)
                   THEN ActiveSnippet_map(value, t.changes) ELSE value)

\* snippetState.update(value, tr)
snippetState_update(value, t) == snippetState_updateFrom(value, t, 1)

RECURSIVE filterField(_, _, _)
filterField(ranges, field, i) ==
  IF i > Len(ranges) THEN <<>>
  ELSE IF ranges[i].field = field
       THEN <<[from |-> ranges[i].from, to |-> ranges[i].to]>>
            \o filterField(ranges, field, i + 1)
       ELSE filterField(ranges, field, i + 1)

\* fieldSelection(ranges, field): the selection ranges, in order.
fieldSelection(ranges, field) == Selection(filterField(ranges, field, 1))

\* A JavaScript value that is undefined (or null), or a string.
Undefined == [undefined |-> TRUE, text |-> ""]

Str(text) == [undefined |-> FALSE, text |-> text]

\* a || b on such values: the empty string is falsy too.
OrElse(a, b) == IF ~a.undefined /\ a.text # "" THEN a ELSE b

\* A match of the placeholder pattern: m[1] is the number (n when it took
\* part), m[2] the text after the colon, m[3] the text of a placeholder
\* without number.
Match(numbered, n, m2, m3) == [numbered |-> numbered, n |-> n, m2 |-> m2, m3 |-> m3]

Field(seq, name, positions) == [seq |-> seq, name |-> name, positions |-> positions]

\* The last field that the placeholder (seq, name) belongs to, or 0.
RECURSIVE foundField(_, _, _, _)
foundField(fields, seq, name, i) ==
  IF i = 0 THEN 0
  ELSE IF (IF ~name.undefined /\ name.text # ""
           THEN fields[i].name = name
           ELSE ~seq.null /\ fields[i].seq = seq)
       THEN i
       ELSE foundField(fields, seq, name, i - 1)

\* The index at which a new field of number seq goes (0-based).
RECURSIVE fieldIndex(_, _, _)
fieldIndex(fields, seq, i) ==
  IF i < Len(fields) /\ (seq.null \/ (~fields[i + 1].seq.null /\ fields[i + 1].seq.n < seq.n))
  THEN fieldIndex(fields, seq, i + 1)
  ELSE i

\* Snippet.parse taking a missing name for the empty name.
parseMatch_emptyName(st, m) ==
  LET pushed(fields, at, name) ==
        [fields |-> [fields EXCEPT ![at].positions =
                       Append(@, [line |-> 0, from |-> st.index,
                                  to |-> st.index + Len(name.text)])],
         index |-> st.index + Len(name.text),
         threw |-> FALSE]
      placed(seq, name, found) ==
        IF found > 0 THEN pushed(st.fields, found, name)
        ELSE LET at(i) ==
                   pushed(SubSeq(st.fields, 1, i)
                          \o <<Field(seq, OrElse(name, Undefined), <<>>)>>
                          \o SubSeq(st.fields, i + 1, Len(st.fields)),
                          i + 1, name)
             IN at(fieldIndex(st.fields, seq, 0))
      matched(seq, name) ==
        placed(seq, name, foundField(st.fields, seq, name, Len(st.fields)))
  IN matched([null |-> ~m.numbered, n |-> m.n], OrElse(m.m2, m.m3))

\* One turn of the loop of Snippet.parse over a line: the placeholder m is
\* found at st.index, its field is found or made, and its position is put
\* down; name.length throws when the name is undefined.
parseMatch(st, m) ==
  LET pushed(fields, at, name) ==
        IF name.undefined THEN [st EXCEPT !.threw = TRUE]
        ELSE [fields |-> [fields EXCEPT ![at].positions =
                            Append(@, [line |-> 0, from |-> st.index,
                                       to |-> st.index + Len(name.text)])],
              index |-> st.index + Len(name.text),
              threw |-> FALSE]
      placed(seq, name, found) ==
        IF found > 0 THEN pushed(st.fields, found, name)
        ELSE LET at(i) ==
                   pushed(SubSeq(st.fields, 1, i)
                          \o <<Field(seq, OrElse(name, Undefined), <<>>)>>
                          \o SubSeq(st.fields, i + 1, Len(st.fields)),
                          i + 1, name)
             IN at(fieldIndex(st.fields, seq, 0))
      matched(seq, name) ==
        placed(seq, name, foundField(st.fields, seq, name, Len(st.fields)))
  IN matched([null |-> ~m.numbered, n |-> m.n], OrElse(m.m2, m.m3))

RECURSIVE parseFrom(_, _, _)
parseFrom(template, st, k) ==
  IF k > Len(template) \/ st.threw THEN st
  ELSE parseFrom(template, parseMatch(st, template[k]), k + 1)

\* Snippet.parse(template) for a template of one line made of placeholders:
\* [fields, index, threw], index being the length of the line it leaves.
parse(template) == parseFrom(template, [fields |-> <<>>, index |-> 0, threw |-> FALSE], 1)

\* Snippet.instantiate for a template of one line inserted at pos: the ranges
\* of its fields, field by field.
RECURSIVE instantiate(_, _, _)
instantiate(fields, pos, i) ==
  IF i > Len(fields) THEN <<>>
  ELSE Array([k \in 1..Len(fields[i].positions) |->
                FieldRange(i - 1, pos + fields[i].positions[k].from,
                           pos + fields[i].positions[k].to)],
             Len(fields[i].positions))
       \o instantiate(fields, pos, i + 1)

\* The transaction that the function returned by snippet() dispatches.
snippet(fields, pos, text) ==
  LET spec(ranges) ==
        Transaction(<<[from |-> pos, to |-> pos, len |-> text]>>,
                    IF Len(ranges) > 0 THEN fieldSelection(ranges, 0) ELSE NoSelection,
                    IF Len(ranges) > 1 THEN <<setActive(ActiveSnippet(ranges, 0))>>
                    ELSE <<>>)
  IN spec(instantiate(fields, pos, 1))

\* moveField(1) deciding that the next field is the last one when no range
\* belongs to it.
moveField_lastIsNext(active, dir) ==
  LET moved(nextField) ==
        Transaction(<<>>, fieldSelection(active.ranges, nextField),
                    <<setActive(IF dir > 0 /\ ~\E j \in 1..Len(active.ranges) :
                                                  active.ranges[j].field = nextField
                                THEN NoSnippet
                                ELSE ActiveSnippet(active.ranges, nextField))>>)
  IN moved(active.active + dir)

\* moveField(dir) on the active snippet: the transaction it dispatches.
moveField(active, dir) ==
  LET moved(nextField) ==
        Transaction(<<>>, fieldSelection(active.ranges, nextField),
                    <<setActive(IF dir > 0 /\ ~\E j \in 1..Len(active.ranges) :
                                                  active.ranges[j].field = nextField + dir
                                THEN NoSnippet
                                ELSE ActiveSnippet(active.ranges, nextField))>>)
  IN moved(active.active + dir)

\* No transaction yet.
NoTransaction ==
  [cmd |-> "none", dir |-> 0, value |-> NoSnippet,
   t |-> Transaction(<<>>, NoSelection, <<>>)]

(***************************************************************************)
(* The state machine: one DecorationSet held by a caller who replaces it   *)
(* by the result of of, update, map and grow.                              *)
(***************************************************************************)
VARIABLES
  set,            \* the caller's current DecorationSet
  isEmpty,        \* set is the object DecorationSet.empty
  other,          \* a second DecorationSet the caller holds
  noDecorations,  \* the contents of the shared array noDecorations
  last,           \* the last call: its name, receiver, arguments and outcome
  steps,          \* the number of calls made
  snippetState,   \* the value of the state field snippetState
  tr              \* the last transaction dispatched to the editor

vars == <<set, isEmpty, other, noDecorations, last, steps, snippetState, tr>>

\* Bounds of the model.
MaxPos == 2

MaxSteps == 3

MaxIns == 1

MaxGrow == 1

Extra == 0

\* The decorations the caller builds: Decoration.range with from < to and
\* Decoration.point, over a few specs.
Attributes(class) == [null |-> FALSE, class |-> <<class>>, style |-> <<>>]

NoAttributes == [null |-> TRUE, class |-> <<>>, style |-> <<>>]

RangeSpecs ==
  { [inclusiveStart |-> FALSE, inclusiveEnd |-> FALSE,
     attributes |-> Attributes("a"), tagName |-> "", collapsed |-> FALSE],
    [inclusiveStart |-> TRUE, inclusiveEnd |-> TRUE,
     attributes |-> Attributes("b"), tagName |-> "", collapsed |-> FALSE] }

\* A range spec that does not affect spans.
PlainSpec ==
  [inclusiveStart |-> FALSE, inclusiveEnd |-> TRUE,
   attributes |-> NoAttributes, tagName |-> "", collapsed |-> FALSE]

PointSpecs == { [side |-> -1], [side |-> 1] }

\* Decoration.range refusing only the ranges that end before they start.
range_allowsEmpty(from, to, spec) ==
  [threw |-> from > to, deco |-> Decoration(from, to, RangeDesc(spec))]

\* Decoration.range: [threw, deco]; deco is what the constructor has made
\* when the call did not throw.
range(from, to, spec) ==
  [threw |-> from >= to, deco |-> Decoration(from, to, RangeDesc(spec))]

point(pos, spec) == Decoration(pos, pos, PointDesc(spec))

\* The (from, to) that Decoration.range accepts.
Intervals ==
  { iv \in (0..MaxPos) \X (0..MaxPos) : \A sp \in RangeSpecs : ~range(iv[1], iv[2], sp).threw }

Decorations ==
  { range(iv[1], iv[2], sp).deco : iv \in Intervals, sp \in RangeSpecs }
  \cup { point(p, sp) : p \in 0..MaxPos, sp \in PointSpecs }

Repeat(d, n) == Array([i \in 1..n |-> d], n)

\* Batches of additions: one decoration, or enough copies of one decoration
\* to overflow a leaf followed by one more decoration.
SmallBatches == { <<d>> : d \in Decorations }

BulkBatches ==
  { Repeat(d, BASE_NODE_SIZE + Extra) \o <<e>> : d \in Decorations, e \in Decorations }

Filters == {"dropRanges", "dropPoints"}

\* The filter windows tried on a set: all of it, and each single position.
Windows(length) == {<<0, length>>} \cup { <<p, p>> : p \in 0..length }

\* Change lists: one insertion or one deletion inside the covered text.
Changes(length) ==
  { <<[from |-> p, to |-> p, len |-> n]>> : p \in 0..length, n \in 1..MaxIns }
  \cup { <<[from |-> iv[1], to |-> iv[2], len |-> 0]>> :
           iv \in { x \in (0..length) \X (0..length) : x[1] < x[2] } }

NoCall ==
  [op |-> "init", prev |-> empty, prevIsEmpty |-> TRUE, decorations |-> <<>>,
   filter |-> "null", filterFrom |-> 0, filterTo |-> 0, changes |-> <<>>,
   threw |-> FALSE, same |-> TRUE, calls |-> {},
   sets |-> <<>>, from |-> 0, to |-> 0, spans |-> <<>>,
   template |-> <<>>, parsed |-> parse(<<>>),
   heap |-> <<>>, heapBefore |-> <<>>, taken |-> <<>>,
   iter |-> <<>>, skips |-> <<>>, yielded |-> <<>>, done |-> FALSE]

Init ==
  /\ set = empty
  /\ isEmpty = TRUE
  /\ other = empty
  /\ noDecorations = <<>>
  /\ last = NoCall
  /\ steps = 0
  /\ snippetState = create
  /\ tr = NoTransaction

\* The caller's first call: set = DecorationSet.of(decorations).
Of(decorations) ==
  /\ steps = 0
  /\ \E r \in {of(decorations, noDecorations)} :
        /\ set' = IF r.err THEN set ELSE r.set
        /\ isEmpty' = IF r.err THEN isEmpty ELSE r.same
        /\ noDecorations' = r.nd
        /\ last' = [NoCall EXCEPT !.op = "of", !.decorations = decorations,
                                  !.threw = r.err, !.same = r.same]
  /\ steps' = steps + 1
  /\ UNCHANGED <<other, snippetState, tr>>

\* set = set.update(decorations, filter, filterFrom, filterTo), as a call
\* the caller may make any number of times.
UpdateCall(decorations, filter, filterFrom, filterTo) ==
  /\ steps > 0
  /\ \E r \in {update(set, decorations, filter, filterFrom, filterTo, noDecorations)} :
        /\ set' = IF r.err THEN set ELSE r.set
        /\ isEmpty' = IF r.err THEN isEmpty ELSE (isEmpty /\ r.same)
        /\ noDecorations' = r.nd
        /\ last' = [NoCall EXCEPT !.op = "update", !.prev = set, !.prevIsEmpty = isEmpty,
                                  !.decorations = decorations, !.filter = filter,
                                  !.filterFrom = filterFrom, !.filterTo = filterTo,
                                  !.threw = r.err, !.same = r.same, !.calls = r.calls]
  /\ steps' = steps + 1
  /\ UNCHANGED <<other, snippetState, tr>>

Update(decorations, filter, filterFrom, filterTo) ==
  /\ steps < MaxSteps
  /\ UpdateCall(decorations, filter, filterFrom, filterTo)

\* set = set.map(changes), as a call the caller may make any number of times.
MapCall(changes) ==
  /\ steps > 0
  /\ \E r \in {map(set, isEmpty, changes)} :
        /\ set' = IF r.err THEN set ELSE r.set
        /\ isEmpty' = IF r.err THEN isEmpty ELSE (isEmpty /\ r.same)
        /\ last' = [NoCall EXCEPT !.op = "map", !.prev = set, !.prevIsEmpty = isEmpty,
                                  !.changes = changes, !.threw = r.err, !.same = r.same]
  /\ steps' = steps + 1
  /\ UNCHANGED <<other, noDecorations, snippetState, tr>>

Map(changes) ==
  /\ steps < MaxSteps
  /\ MapCall(changes)

\* set = set.grow(length)
Grow(length) ==
  /\ steps > 0
  /\ steps < MaxSteps
  /\ set' = grow(set, length)
  /\ isEmpty' = FALSE
  /\ last' = [NoCall EXCEPT !.op = "grow", !.prev = set, !.prevIsEmpty = isEmpty,
                            !.same = FALSE]
  /\ steps' = steps + 1
  /\ UNCHANGED <<other, noDecorations, snippetState, tr>>

\* decoratedSpansInRange(sets, from, to)
Spans(sets, from, to) ==
  /\ steps > 0
  /\ steps < MaxSteps
  /\ last.op # "spans"
  /\ last' = [NoCall EXCEPT !.op = "spans", !.sets = sets, !.from = from, !.to = to,
                            !.spans = decoratedSpansInRange(sets, from, to)]
  /\ steps' = steps + 1
  /\ UNCHANGED <<set, isEmpty, other, noDecorations, snippetState, tr>>

Next ==
  \/ steps = 0 /\ \E decorations \in SmallBatches \cup BulkBatches : Of(decorations)
  \/ \E decorations \in SmallBatches : Update(decorations, "null", 0, set.length)
  \/ \E filter \in Filters, w \in Windows(set.length) : Update(<<>>, filter, w[1], w[2])
  \/ \E changes \in Changes(set.length) : Map(changes)
  \/ \E length \in 1..MaxGrow : Grow(length)
  \/ Spans(<<set>>, 0, set.length)

Spec == Init /\ [][Next]_vars

(***************************************************************************)
(* DecorationSet.of on its own, over more batches: decorations in any      *)
(* order, with duplicates, few or enough to need children.                 *)
(***************************************************************************)
Alternate(d, e, n) == Array([i \in 1..n |-> IF i % 2 = 1 THEN d ELSE e], n)

OfBatches ==
  { <<d, e>> : d, e \in Decorations }
  \cup { Alternate(d, e, BASE_NODE_SIZE + k) \o <<f>> :
           d \in Decorations, e \in Decorations, f \in Decorations, k \in 0..Extra }

NextOf == steps = 0 /\ \E decorations \in OfBatches : Of(decorations)

SpecOf == Init /\ [][NextOf]_vars

(***************************************************************************)
(* The spans query: the caller builds one or two sets and asks for the     *)
(* spans of a window.                                                      *)
(***************************************************************************)
MaxStarts == 2

MaxWidth == 4

SpanRanges ==
  { range(iv[1], iv[2], sp).deco : iv \in Intervals, sp \in RangeSpecs \cup {PlainSpec} }

SpanDecorations == Decorations \cup SpanRanges

\* Ranges of one spec that overlap each other: one from every start in
\* 0..starts, of every width in narrow..wide.
Overlapping(starts, narrow, wide, spec) ==
  LET widths == wide - narrow + 1
      n == (starts + 1) * widths
  IN Array([i \in 1..n |->
              range((i - 1) \div widths,
                    ((i - 1) \div widths) + narrow + ((i - 1) % widths), spec).deco], n)

SpanBatches ==
  { <<d>> : d \in SpanDecorations }
  \cup { Repeat(d, BASE_NODE_SIZE + Extra) \o <<e>> : d \in SpanRanges, e \in SpanRanges }
  \cup { Overlapping(starts, w[1], w[2], sp) :
           starts \in 0..MaxStarts,
           w \in { w \in (1..MaxWidth) \X (1..MaxWidth) : w[1] <= w[2] },
           sp \in RangeSpecs }

\* other = DecorationSet.of(decorations)
OfOther(decorations) ==
  /\ steps = 1
  /\ \E r \in {of(decorations, noDecorations)} :
        /\ ~r.err
        /\ other' = r.set
        /\ noDecorations' = r.nd
        /\ last' = [NoCall EXCEPT !.op = "of", !.decorations = decorations,
                                  !.same = r.same]
  /\ steps' = steps + 1
  /\ UNCHANGED <<set, isEmpty, snippetState, tr>>

Queries(length) ==
  { q \in (0..MaxPos) \X (0..MaxPos) : q[1] <= q[2] } \cup { <<0, length>> }

NextSpans ==
  \/ steps = 0 /\ \E decorations \in SpanBatches : Of(decorations)
  \/ steps = 1 /\ \E d \in SpanRanges : OfOther(<<d>>)
  \/ \E q \in Queries(set.length) : Spans(<<set>>, q[1], q[2])
  \/ steps = 2 /\ \E q \in Queries(Max(set.length, other.length)) :
                     Spans(<<set, other>>, q[1], q[2])

SpecSpans == Init /\ [][NextSpans]_vars

\* The decorations of xs mapped through changes, those that map to nothing
\* dropped.
mapAll(decorations, changes) ==
  LET mapped == Array([i \in 1..Len(decorations) |-> Desc_map(decorations[i], changes)],
                      Len(decorations))
      kept == SelectSeq(mapped, LAMBDA m: ~m.null)
  IN Array([i \in 1..Len(kept) |-> kept[i].deco], Len(kept))

\* Both sides of the update/map law on the caller's set: last.sets holds
\* set.update(xs).map(cs) and set.map(cs).update(xs mapped through cs).
UpdateThenMap(decorations, changes) ==
  /\ steps = 1
  /\ \E u \in {update(set, decorations, "null", 0, set.length, noDecorations)} :
     \E m \in {map(set, isEmpty, changes)} :
       \E um \in {map(u.set, FALSE, changes)} :
         \E mu \in {update(m.set, mapAll(decorations, changes), "null", 0, m.set.length,
                            u.nd)} :
           /\ last' = [NoCall EXCEPT !.op = "law", !.prev = set, !.prevIsEmpty = isEmpty,
                                     !.decorations = decorations, !.changes = changes,
                                     !.threw = u.err \/ m.err \/ um.err \/ mu.err,
                                     !.sets = <<um.set, mu.set>>]
           /\ noDecorations' = mu.nd
  /\ steps' = steps + 1
  /\ UNCHANGED <<set, isEmpty, other, snippetState, tr>>

NextLaw ==
  \/ steps = 0 /\ \E decorations \in SmallBatches \cup BulkBatches : Of(decorations)
  \/ \E decorations \in SmallBatches, changes \in Changes(set.length) :
       UpdateThenMap(decorations, changes)

SpecLaw == Init /\ [][NextLaw]_vars

(***************************************************************************)
(* The two constructors of decorations, called on any positions.  The call *)
(* is recorded in last: its arguments in from and to, and the decoration   *)
(* it returned, if any, in decorations.                                    *)
(***************************************************************************)
Positions == 0..(MaxPos + 1)

\* Decoration.range(from, to, spec)
Range(from, to, spec) ==
  /\ steps < MaxSteps
  /\ \E r \in {range(from, to, spec)} :
       last' = [NoCall EXCEPT !.op = "range", !.from = from, !.to = to,
                              !.threw = r.threw,
                              !.decorations = IF r.threw THEN <<>> ELSE <<r.deco>>]
  /\ steps' = steps + 1
  /\ UNCHANGED <<set, isEmpty, other, noDecorations, snippetState, tr>>

\* Decoration.point(pos, spec)
Point(pos, spec) ==
  /\ steps < MaxSteps
  /\ last' = [NoCall EXCEPT !.op = "point", !.from = pos, !.to = pos,
                            !.decorations = <<point(pos, spec)>>]
  /\ steps' = steps + 1
  /\ UNCHANGED <<set, isEmpty, other, noDecorations, snippetState, tr>>

NextMake ==
  \/ \E from \in Positions, to \in Positions, spec \in RangeSpecs \cup {PlainSpec} :
       Range(from, to, spec)
  \/ \E pos \in Positions, spec \in PointSpecs : Point(pos, spec)

SpecMake == Init /\ [][NextMake]_vars

(***************************************************************************)
(* Maps of any set, DecorationSet.empty included, through any changes, the *)
(* empty list included.                                                    *)
(***************************************************************************)
NextMapAny ==
  \/ steps = 0 /\ \E decorations \in SmallBatches \cup BulkBatches \cup {<<>>} :
                     Of(decorations)
  \/ \E changes \in {<<>>} \cup Changes(IF isEmpty THEN MaxPos ELSE set.length) :
       Map(changes)

SpecMapAny == Init /\ [][NextMapAny]_vars

(***************************************************************************)
(* Updates that add nothing: the caller filters its set through any        *)
(* filter, or through none.                                                *)
(***************************************************************************)
AllFilters == Filters \cup {"null", "keepAll", "dropAll"}

NextSame ==
  \/ steps = 0 /\ \E decorations \in SmallBatches \cup BulkBatches : Of(decorations)
  \/ \E decorations \in SmallBatches : Update(decorations, "null", 0, set.length)
  \/ \E filter \in AllFilters, w \in Windows(set.length) : Update(<<>>, filter, w[1], w[2])

SpecSame == Init /\ [][NextSame]_vars

(***************************************************************************)
(* One update of a set made by of, with additions, a filter, or both.      *)
(***************************************************************************)
NextUpdate ==
  \/ steps = 0 /\ \E decorations \in SmallBatches \cup BulkBatches : Of(decorations)
  \/ steps = 1 /\ \E decorations \in SmallBatches \cup {<<>>}, filter \in AllFilters,
                      w \in Windows(set.length) :
                     Update(decorations, filter, w[1], w[2])

SpecUpdate == Init /\ [][NextUpdate]_vars

(***************************************************************************)
(* The shared array noDecorations: it is the local of DecorationSet.empty  *)
(* and of every wrapper node rebalanceChildren makes.  The caller builds a *)
(* set of four children under one local range, adds a pair of points to    *)
(* the first child, maps the set through a deletion and then adds a burst  *)
(* of equal points.                                                        *)
(***************************************************************************)
MaxTail == 4

MaxBurst == 2 * BASE_NODE_SIZE + 2

PlainRange(from, to) == range(from, to, CHOOSE sp \in RangeSpecs : ~sp.inclusiveStart).deco

\* Four runs of decorations, at 0, 1, 2 and 3: 31 ranges and the range
\* across, 30 ranges and two points, 32 points, and one range of width tail.
LaidOut(across, side, tail) ==
  Repeat(PlainRange(0, 1), BASE_NODE_SIZE - 1) \o <<across>>
  \o Repeat(PlainRange(1, 2), BASE_NODE_SIZE - 2) \o Repeat(point(1, side), 2)
  \o Repeat(point(2, side), BASE_NODE_SIZE)
  \o <<PlainRange(3, 3 + tail)>>

LaidOutBatches ==
  { LaidOut(PlainRange(0, to), side, tail) :
      to \in 1..2, side \in PointSpecs, tail \in (MaxTail - 1)..MaxTail }

PairBatches == { <<point(0, side), point(p, side)>> : p \in 0..1, side \in PointSpecs }

Deletions == { <<[from |-> from, to |-> from + 1, len |-> 0]>> : from \in 0..1 }

Bursts ==
  { Repeat(point(p, [side |-> -1]), n) : p \in 3..(MaxTail + 1), n \in (MaxBurst - 1)..MaxBurst }

NextShared ==
  \/ steps = 0 /\ \E decorations \in LaidOutBatches : Of(decorations)
  \/ steps = 1 /\ \E decorations \in PairBatches :
                     UpdateCall(decorations, "null", 0, set.length)
  \/ steps = 2 /\ \E changes \in Deletions : MapCall(changes)
  \/ steps = 3 /\ \E decorations \in Bursts :
                     UpdateCall(decorations, "null", 0, set.length)

SpecShared == Init /\ [][NextShared]_vars

(***************************************************************************)
(* The iterator on its own: a set is built, an iterator is made for it and *)
(* next is called until it returns null.                                   *)
(***************************************************************************)
\* new DecorationSetIterator(set)
Iterator ==
  /\ steps > 0
  /\ last.op \notin {"iterator", "next"}
  /\ ~last.threw
  /\ last' = [NoCall EXCEPT !.op = "iterator", !.iter = DecorationSetIterator(set, 0)]
  /\ UNCHANGED <<set, isEmpty, other, noDecorations, steps, snippetState, tr>>

\* iterator.next(skip); last.skips holds the skip of every call so far and
\* last.yielded the LocalSets returned.
IterNext(skip) ==
  /\ last.op \in {"iterator", "next"}
  /\ ~last.done
  /\ \E r \in {next(last.iter, skip, 1)} :
        last' = [last EXCEPT !.op = "next", !.iter = r.stack,
                             !.skips = Append(@, skip),
                             !.yielded = IF r.null THEN @ ELSE Append(@, r.value),
                             !.done = r.null]
  /\ UNCHANGED <<set, isEmpty, other, noDecorations, steps, snippetState, tr>>

\* Two full leaves side by side: 32 ranges over 0..first and 32 over the
\* second positions after them.
SplitBatches ==
  { Repeat(PlainRange(0, first), BASE_NODE_SIZE)
      \o Repeat(PlainRange(first, first + second), BASE_NODE_SIZE) :
        first \in 1..MaxPos, second \in 1..MaxPos }

\* One more range, of the other spec, added anywhere in a set of that length.
LateRanges(length) ==
  { <<range(iv[1], iv[2], CHOOSE sp \in RangeSpecs : sp.inclusiveStart).deco>> :
      iv \in { x \in (0..length) \X (0..length) : x[1] < x[2] } }

\* The skip of a call is the one addIterToHeap was given at first, or 0.
NextIter ==
  \/ steps = 0 /\ \E decorations \in SmallBatches \cup BulkBatches \cup LaidOutBatches
                                      \cup SplitBatches :
                     Of(decorations)
  \/ steps = 1 /\ last.op = "of" /\ \E decorations \in PairBatches :
                     UpdateCall(decorations, "null", 0, set.length)
  \/ steps = 1 /\ last.op = "of" /\ last.decorations \in SplitBatches
       /\ \E decorations \in LateRanges(set.length) :
             UpdateCall(decorations, "null", 0, set.length)
  \/ steps = 2 /\ last.op = "update" /\ \E decorations \in Bursts :
                     UpdateCall(decorations, "null", 0, set.length)
  \/ Iterator
  \/ \E skip \in IF last.skips = <<>> THEN 0..set.length ELSE {0, last.skips[1]} :
       IterNext(skip)

SpecIter == Init /\ [][NextIter]_vars

(***************************************************************************)
(* rebalanceChildren on its own: a node of up to three leaves, some of     *)
(* them empty, with or without a local range.                              *)
(***************************************************************************)
MaxLocal == 3

Leaves ==
  { DecorationSet(length, n, Repeat(PlainRange(0, 1), n), <<>>) :
      length \in {1, 2 * MaxLocal + 2}, n \in 0..MaxLocal }

\* rebalanceChildren(local, children, childSize) on the arrays of a node
\* under construction; last.prev is the node before and last.sets holds the
\* node after the call.
Rebalance(local, children, childSize) ==
  /\ steps = 0
  /\ \E r \in {rebalanceChildren(local, children, childSize, noDecorations)} :
        /\ last' = [NoCall EXCEPT
                      !.op = "rebalanceChildren",
                      !.prev = DecorationSet(SumLengths(children, 1),
                                             Len(local) + SumSizes(children, 1),
                                             local, children),
                      !.threw = r.err,
                      !.sets = <<DecorationSet(SumLengths(r.children, 1),
                                               Len(r.local) + SumSizes(r.children, 1),
                                               r.local, r.children)>>]
        /\ noDecorations' = r.nd
  /\ steps' = steps + 1
  /\ UNCHANGED <<set, isEmpty, other, snippetState, tr>>

NextRebalance ==
  \E local \in {<<>>, <<PlainRange(0, 1)>>},
     children \in UNION { [1..k -> Leaves] : k \in 1..MaxLocal },
     childSize \in 1..MaxLocal :
    Rebalance(local, children, childSize)

SpecRebalance == Init /\ [][NextRebalance]_vars

(***************************************************************************)
(* The heap on its own: elements are pushed and taken in any order.        *)
(***************************************************************************)
MaxHeap == 6

\* Active ranges ending at each position, of either bias.
Heapables ==
  { [type |-> "Decoration", deco |-> range(0, to, spec).deco, id |-> 0] :
      to \in 1..(MaxPos + 1), spec \in RangeSpecs }

\* addToHeap(heap, elt)
AddToHeap(elt) ==
  /\ Len(last.heap) < MaxHeap
  /\ last' = [NoCall EXCEPT !.op = "addToHeap", !.heapBefore = last.heap,
                            !.heap = addToHeap(last.heap, elt)]
  /\ UNCHANGED <<set, isEmpty, other, noDecorations, steps, snippetState, tr>>

\* takeFromHeap(heap), called as its callers do on a heap that is not empty.
TakeFromHeap ==
  /\ Len(last.heap) > 0
  /\ \E r \in {takeFromHeap(last.heap)} :
        last' = [NoCall EXCEPT !.op = "takeFromHeap", !.heapBefore = last.heap,
                               !.heap = r.heap, !.taken = <<r.elt>>]
  /\ UNCHANGED <<set, isEmpty, other, noDecorations, steps, snippetState, tr>>

NextHeap ==
  \/ \E elt \in Heapables : AddToHeap(elt)
  \/ TakeFromHeap

SpecHeap == Init /\ [][NextHeap]_vars

(***************************************************************************)
(* The editor: transactions dispatched by snippet(), by moveField and by   *)
(* others, each updating the snippetState field.                           *)
(***************************************************************************)
MaxPlaces == 3

\* The names and numbers of placeholders.
Names == {Str(""), Str("a"), Str("b")}

\* The placeholders: ${name} with any name, ${n} and ${n:name}.
Matches ==
  { Match(FALSE, 0, Undefined, name) : name \in Names }
  \cup { Match(TRUE, n, m2, Undefined) : n \in 1..MaxPos, m2 \in Names \cup {Undefined} }

\* The templates: up to MaxPlaces placeholders on a line.
Templates == UNION { [1..k -> Matches] : k \in 0..MaxPlaces }

\* editor.dispatch(t): the state field takes snippetState.update(value, t).
Dispatch(cmd, dir, t) ==
  /\ steps < MaxSteps
  /\ snippetState' = snippetState_update(snippetState, t)
  /\ tr' = [cmd |-> cmd, dir |-> dir, value |-> snippetState, t |-> t]
  /\ steps' = steps + 1
  /\ UNCHANGED <<set, isEmpty, other, noDecorations, last>>

\* snippet(template), which parses the template, and the function it
\* returns applied at pos.
Snippet(template, pos) ==
  \E parsed \in {parse(template)} :
    /\ ~parsed.threw
    /\ Dispatch("snippet", 0, snippet(parsed.fields, pos, parsed.index))

\* The command moveField(dir); it returns false, dispatching nothing, when
\* there is no active snippet or when it is asked to move before field 0.
MoveField(dir) ==
  /\ ~(snippetState.null \/ (dir < 0 /\ snippetState.active = 0))
  /\ Dispatch("moveField", dir, moveField(snippetState, dir))

\* A transaction dispatched by anyone else.
Transact(t) == Dispatch("transact", 0, t)

\* Snippet.parse(template)
Parse(template) ==
  /\ steps < MaxSteps
  /\ \E parsed \in {parse(template)} :
        last' = [NoCall EXCEPT !.op = "parse", !.template = template,
                               !.threw = parsed.threw, !.parsed = parsed]
  /\ steps' = steps + 1
  /\ UNCHANGED <<set, isEmpty, other, noDecorations, snippetState, tr>>

NextParse == steps = 0 /\ \E template \in Templates : Parse(template)

SpecParse == Init /\ [][NextParse]_vars

NextSnippet ==
  \/ steps = 0 /\ \E template \in Templates, pos \in 0..MaxIns : Snippet(template, pos)
  \/ steps > 0 /\ \E dir \in {1, -1} : MoveField(dir)

SpecSnippet == Init /\ [][NextSnippet]_vars

\* The selections and effects of the other transactions.
Selections ==
  {NoSelection}
  \cup { Selection(<<[from |-> iv[1], to |-> iv[2]]>>) :
           iv \in { x \in (0..MaxPos) \X (0..MaxPos) : x[1] <= x[2] } }
  \cup { Selection(<<[from |-> iv[1], to |-> iv[1]], [from |-> iv[2], to |-> iv[2]]>>) :
           iv \in { x \in (0..MaxPos) \X (0..MaxPos) : x[1] < x[2] } }

OtherEffect == [type |-> "other", value |-> NoSnippet, field |-> 0]

Effects ==
  { <<>>, <<OtherEffect>>, <<moveToField(1)>>, <<OtherEffect, setActive(NoSnippet)>> }

Transactions ==
  { Transaction(changes, selection, effects) :
      changes \in {<<>>} \cup Changes(MaxPos), selection \in Selections, effects \in Effects }

\* A snippet is entered, its fields are visited, and one other transaction
\* is dispatched.
NextTransact ==
  \/ steps = 0 /\ \E template \in Templates : Snippet(template, 0)
  \/ steps > 0 /\ tr.cmd # "transact" /\ \E dir \in {1, -1} : MoveField(dir)
  \/ steps > 0 /\ tr.cmd # "transact" /\ \E t \in Transactions : Transact(t)

SpecTransact == Init /\ [][NextTransact]_vars


(***************************************************************************)
(* What the claims speak of                                                *)
(***************************************************************************)
\* Every node of the tree under a set, the set itself included.
RECURSIVE Nodes(_)
Nodes(node) == {node} \cup UNION { Nodes(node.children[i]) : i \in 1..Len(node.children) }

SizeOk(node) == node.size = Len(node.local) + SumSizes(node.children, 1)

LocalSorted(node) ==
  \A i \in 1..(Len(node.local) - 1) : byPos(node.local[i], node.local[i + 1]) <= 0

LocalInside(node) ==
  \A i \in 1..Len(node.local) :
    /\ 0 <= node.local[i].from
    /\ node.local[i].from <= node.local[i].to
    /\ node.local[i].to <= node.length

ChildrenInside(node) ==
  /\ \A i \in 1..Len(node.children) : node.children[i].length >= 0
  /\ SumLengths(node.children, 1) <= node.length

\* The decorations of a set at their absolute positions, as a bag: the
\* function from (from, to, spec) to the number of its occurrences.
Count(decorations, d) == Cardinality({ i \in 1..Len(decorations) : decorations[i] = d })

BagOf(decorations) ==
  [d \in {decorations[i] : i \in 1..Len(decorations)} |-> Count(decorations, d)]

\* The absolute decorations of a set, read off the tree by its layout: a
\* node's locals at the node's start, its children end to end from there.
RECURSIVE Absolute(_, _)
RECURSIVE AbsoluteChildren(_, _, _)
Absolute(node, offset) ==
  moveAll(node.local, offset) \o AbsoluteChildren(node.children, 1, offset)

AbsoluteChildren(children, i, offset) ==
  IF i > Len(children) THEN <<>>
  ELSE Absolute(children[i], offset)
       \o AbsoluteChildren(children, i + 1, offset + children[i].length)

Contents(s) == BagOf(Absolute(s, 0))

WellFormed(s) ==
  \A node \in Nodes(s) :
    SizeOk(node) /\ LocalSorted(node) /\ LocalInside(node) /\ ChildrenInside(node)

\* The absolute decorations of a list of sets.
RECURSIVE AbsoluteAll(_, _)
AbsoluteAll(sets, i) ==
  IF i > Len(sets) THEN <<>> ELSE Absolute(sets[i], 0) \o AbsoluteAll(sets, i + 1)

\* The range decorations with affectsSpans that cover [a, b).
Covering(decorations, a, b) ==
  SelectSeq(decorations, LAMBDA d: /\ d.desc.kind = "range"
                                   /\ d.desc.affectsSpans
                                   /\ d.from <= a
                                   /\ b <= d.to)

RECURSIVE ClassTokens(_, _)
ClassTokens(decorations, i) ==
  IF i > Len(decorations) THEN <<>>
  ELSE decorations[i].desc.spec.attributes.class \o ClassTokens(decorations, i + 1)

\* The span carries the merge of the decorations: their class tokens (in
\* some order) and no tag name, none of them having one.
CarriesMerge(span, decorations) ==
  /\ BagOf(span.attrs.class) = BagOf(ClassTokens(decorations, 1))
  /\ span.attrs.style = <<>>
  /\ span.tagName = ""

Straddles(span, decorations) ==
  \E i \in 1..Len(decorations) :
    LET d == decorations[i]
    IN /\ d.desc.kind = "range"
       /\ d.desc.affectsSpans
       /\ \/ span.from < d.from /\ d.from < span.to
          \/ span.from < d.to /\ d.to < span.to

SpansOk(sets, spans) ==
  LET decorations == AbsoluteAll(sets, 1)
  IN \A i \in 1..Len(spans) :
       /\ CarriesMerge(spans[i], Covering(decorations, spans[i].from, spans[i].to))
       /\ ~Straddles(spans[i], decorations)

C2_LocalSorted == \A node \in Nodes(set) : LocalSorted(node)

\* C3: at every node, every local decoration d has 0 <= d.from <= d.to <= length.
C3_LocalInsideNode == \A node \in Nodes(set) : LocalInside(node)

\* C4: at every node, every child has length >= 0 and the children's lengths
\* sum to at most the node's length.
C4_ChildrenInsideNode == \A node \in Nodes(set) : ChildrenInside(node)

\* A map has changed the length of a set that has two children.
C4_Witness ==
  /\ last.op = "map" /\ ~last.threw
  /\ Len(set.children) = 2
  /\ set.length # last.prev.length

C6_MapIsPointwise ==
  last.op = "map" /\ WellFormed(last.prev) =>
    /\ ~last.threw
    /\ Contents(set) = BagOf(mapAll(Absolute(last.prev, 0), last.changes))

Intersects(d, filterFrom, filterTo) == ~(filterFrom > d.to \/ filterTo < d.from)

\* C7: s.update([], f, filterFrom, filterTo) holds the decorations of s less
\* those that intersect the window and f rejects, and f is called only on
\* decorations that intersect the window.
C7_FilterDropsExactlyRejected ==
  last.op = "update" /\ last.decorations = <<>> /\ last.filter # "null"
                     /\ WellFormed(last.prev) =>
    /\ ~last.threw
    /\ Contents(set) =
         BagOf(SelectSeq(Absolute(last.prev, 0),
                         LAMBDA d: ~(/\ Intersects(d, last.filterFrom, last.filterTo)
                                     /\ ~FilterFn(last.filter, d.from, d.to, d.desc.spec))))
    /\ \A c \in last.calls :
         Intersects([from |-> c[1], to |-> c[2]], last.filterFrom, last.filterTo)

\* C8: on sets that satisfy the set invariants, every span returned carries
\* the merge of exactly the affectsSpans ranges covering it and straddles no
\* start or end of such a range.
C8_SpansCarryCoveringRanges ==
  last.op = "spans" /\ (\A i \in 1..Len(last.sets) : WellFormed(last.sets[i])) =>
    SpansOk(last.sets, last.spans)

\* C9: the spans of [s] over 0..s.length are non-empty and consecutive from 0
\* to s.length, and there is none when s.length = 0.
C9_SpansGapFree ==
  last.op = "spans" /\ last.sets = <<set>> /\ last.from = 0 /\ last.to = set.length =>
    LET spans == last.spans
        n == Len(spans)
    IN IF set.length = 0 THEN n = 0
       ELSE /\ n > 0
            /\ spans[1].from = 0
            /\ spans[n].to = set.length
            /\ \A i \in 1..n : spans[i].from < spans[i].to
            /\ \A i \in 1..(n - 1) : spans[i].to = spans[i + 1].from

\* The spans of a set that has children, more than one of them.
C9_Witness ==
  /\ last.op = "spans" /\ last.sets = <<set>> /\ last.from = 0 /\ last.to = set.length
  /\ Len(set.children) > 0
  /\ Len(last.spans) > 1

\* C10: s.update(xs).map(cs) and s.map(cs).update(xs mapped through cs) hold
\* the same multiset of absolute decorations.
C10_UpdateMapCommute ==
  last.op = "law" /\ WellFormed(last.prev) =>
    /\ ~last.threw
    /\ Contents(last.sets[1]) = Contents(last.sets[2])

\* The filter of the last update rejects no decoration of the receiver that
\* intersects the window.
NothingRejected ==
  \/ last.filter = "null"
  \/ \E before \in {Absolute(last.prev, 0)} :
       \A i \in 1..Len(before) :
         Intersects(before[i], last.filterFrom, last.filterTo) =>
           FilterFn(last.filter, before[i].from, before[i].to, before[i].desc.spec)

\* C13: an update with no additions whose filter, if any, rejects no
\* decoration inside the window returns the receiver itself.
C13_UnchangedUpdateReturnsThis ==
  last.op = "update" /\ last.decorations = <<>> /\ NothingRejected =>
    ~last.threw /\ last.same /\ set = last.prev

\* A filter was called on the decorations of a set that has children,
\* rejected none, and the update returned the receiver.
C13_Witness ==
  /\ last.op = "update" /\ last.decorations = <<>> /\ NothingRejected
  /\ last.filter # "null" /\ last.calls # {}
  /\ Len(last.prev.children) > 0
  /\ last.same

\* The decoration the claim's rule gives for d after n characters are
\* inserted at p: an endpoint at p moves to p + n when its bias is positive
\* and stays when it is negative; the text before p stays and the text after
\* it shifts by n.
InsertedAt(pos, bias, p, n) ==
  IF pos < p THEN pos
  ELSE IF pos > p THEN pos + n
  ELSE IF bias > 0 THEN p + n ELSE p

MovedByInsertion(d, p, n) ==
  Decoration(InsertedAt(d.from, d.desc.bias, p, n),
             InsertedAt(d.to, IF d.desc.kind = "range" THEN d.desc.endBias ELSE d.desc.bias,
                        p, n),
             d.desc)

\* C12: after s.map of an insertion of n > 0 characters at p, every
\* decoration of s with an endpoint at p is in the result with that endpoint
\* at p + n when its bias is positive and at p when it is negative.
C12_InsertionAtEndpoint ==
  (/\ last.op = "map" /\ WellFormed(last.prev) /\ Len(last.changes) = 1
   /\ last.changes[1].from = last.changes[1].to /\ last.changes[1].len > 0) =>
    \E p \in {last.changes[1].from}, n \in {last.changes[1].len} :
      \E before \in {SelectSeq(Absolute(last.prev, 0), LAMBDA d: d.from = p \/ d.to = p)} :
        \E moved \in {Array([i \in 1..Len(before) |-> MovedByInsertion(before[i], p, n)],
                            Len(before))},
           after \in {Absolute(set, 0)} :
          /\ ~last.threw
          /\ \A i \in 1..Len(moved) : Count(after, moved[i]) >= Count(moved, moved[i])

\* C11: update, map, grow and decoratedSpansInRange modify no existing set;
\* DecorationSet.empty, whose local is the shared array noDecorations, still
\* has no locals after any sequence of them.
C11_NothingModified == noDecorations = <<>>

\* C14: a new set returned by update whose size is at most BASE_NODE_SIZE is
\* a flat leaf: it has no children and its local holds all its decorations.
C14_SmallResultIsLeaf ==
  last.op = "update" /\ ~last.threw /\ ~last.same /\ set.size <= BASE_NODE_SIZE =>
    /\ set.children = <<>>
    /\ Len(set.local) = set.size
    /\ Len(Absolute(set, 0)) = set.size

\* A filter has left at most BASE_NODE_SIZE decorations in a set that had
\* children, and some of them were in the children.
C14_Witness ==
  /\ last.op = "update" /\ ~last.threw /\ ~last.same
  /\ last.decorations = <<>>
  /\ Len(last.prev.children) > 0
  /\ set.size <= BASE_NODE_SIZE
  /\ set.size > Len(last.prev.local)

\* The largest of length and the ends of the decorations.
MaxEnd(length, decorations) ==
  CHOOSE m \in {length} \cup {decorations[i].to : i \in 1..Len(decorations)} :
    /\ m >= length
    /\ \A i \in 1..Len(decorations) : m >= decorations[i].to

C16_RangeAndPoint ==
  /\ last.op = "range" /\ last.from >= last.to =>
       last.threw /\ last.decorations = <<>>
  /\ last.op = "range" /\ last.from < last.to =>
       /\ ~last.threw
       /\ Len(last.decorations) = 1
       /\ last.decorations[1].from = last.from
       /\ last.decorations[1].to = last.to
       /\ last.decorations[1].desc.kind = "range"
  /\ last.op = "point" =>
       /\ ~last.threw
       /\ Len(last.decorations) = 1
       /\ last.decorations[1].from = last.from
       /\ last.decorations[1].to = last.from
       /\ last.decorations[1].desc.kind = "point"

\* Decoration.range was called on an empty range away from 0 and threw.
C16_Witness ==
  /\ last.op = "range" /\ last.from = last.to /\ last.from > 0
  /\ last.threw

\* A range decoration is not empty and a point decoration is.
Shaped(d) == IF d.desc.kind = "range" THEN d.from < d.to ELSE d.from = d.to

\* C17: in every set reached by of, update and map, every range decoration
\* has from < to and every point decoration has from = to.
C17_RangesNonEmptyPointsEmpty ==
  \A node \in Nodes(set) : \A i \in 1..Len(node.local) : Shaped(node.local[i])

\* A map has deleted the text of a range, which is gone from the set, and
\* kept a point.
C17_Witness ==
  /\ last.op = "map" /\ ~last.threw
  /\ set.size < last.prev.size
  /\ \E i \in 1..Len(last.prev.local) : last.prev.local[i].desc.kind = "range"
  /\ \E i \in 1..Len(set.local) : set.local[i].desc.kind = "point"

\* C18: s.map([]) returns s itself, and DecorationSet.empty.map(cs) returns
\* DecorationSet.empty.
C18_MapFastPaths ==
  /\ last.op = "map" /\ last.changes = <<>> =>
       ~last.threw /\ last.same /\ set = last.prev /\ isEmpty = last.prevIsEmpty
  /\ last.op = "map" /\ last.prevIsEmpty =>
       ~last.threw /\ last.same /\ set = empty /\ isEmpty

\* A set with children and locals was mapped through no changes.
C18_Witness ==
  /\ last.op = "map" /\ last.changes = <<>>
  /\ Len(last.prev.children) > 0 /\ Len(last.prev.local) > 0
  /\ last.same

\* The ranges of a field, as selection ranges, in the order of the snippet.
RangesOfField(ranges, field) ==
  LET picked == SelectSeq(ranges, LAMBDA r : r.field = field)
  IN Array([i \in 1..Len(picked) |-> [from |-> picked[i].from, to |-> picked[i].to]],
           Len(picked))

HasField(ranges, field) == \E i \in 1..Len(ranges) : ranges[i].field = field

\* C19: after moveField(1) has moved an active snippet from field k, the
\* snippet state is null when no range belongs to field k+2 and is active on
\* field k+1, with the same ranges, when one does; either way the selection
\* the transaction sets is the ranges of field k+1.
C19_TabMovesToNextField ==
  tr.cmd = "moveField" /\ tr.dir = 1 =>
    /\ ~HasField(tr.value.ranges, tr.value.active + 2) => snippetState.null
    /\ HasField(tr.value.ranges, tr.value.active + 2) =>
         snippetState = ActiveSnippet(tr.value.ranges, tr.value.active + 1)
    /\ tr.t.selection.set
    /\ tr.t.selection.ranges = RangesOfField(tr.value.ranges, tr.value.active + 1)

\* Tab moved from field 1 to field 2, the last one, and the snippet ended.
C19_Witness ==
  /\ tr.cmd = "moveField" /\ tr.dir = 1
  /\ tr.value.active = 1
  /\ HasField(tr.value.ranges, 2)
  /\ snippetState.null
  /\ Len(tr.t.selection.ranges) > 0

\* The ranges of a snippet after the changes: a range grows over text
\* inserted at either of its ends.
MappedRanges(ranges, changes) ==
  Array([i \in 1..Len(ranges) |->
           [field |-> ranges[i].field,
            from |-> mapPos(ranges[i].from, changes, -1),
            to |-> mapPos(ranges[i].to, changes, 1)]],
        Len(ranges))

\* Every range of the selection lies inside one of the ranges of the field.
InsideField(sel, ranges, field) ==
  \A i \in 1..Len(sel) :
    \E j \in 1..Len(ranges) :
      ranges[j].field = field /\ ranges[j].from <= sel[i].from /\ sel[i].to <= ranges[j].to

SetsNoField(t) ==
  \A i \in 1..Len(t.effects) : t.effects[i].type \notin {"setActive", "moveToField"}

\* C20: a transaction without setActive and moveToField effects that sets a
\* selection, met by an active snippet, leaves the snippet state null when
\* some selection range is not inside a mapped range of the active field,
\* and active on the same field, with its ranges mapped through the
\* changes, when every selection range is inside one.
C20_SelectionOutsideFieldEnds ==
  ~tr.value.null /\ SetsNoField(tr.t) /\ tr.t.selection.set =>
    IF InsideField(tr.t.selection.ranges, MappedRanges(tr.value.ranges, tr.t.changes),
                   tr.value.active)
    THEN snippetState = ActiveSnippet(MappedRanges(tr.value.ranges, tr.t.changes),
                                      tr.value.active)
    ELSE snippetState.null

\* Text was inserted at the edge of the active field and the cursor put
\* after it: the snippet stays active, its ranges moved.
C20_Witness ==
  /\ ~tr.value.null /\ SetsNoField(tr.t) /\ tr.t.selection.set
  /\ Len(tr.t.changes) > 0
  /\ ~snippetState.null
  /\ snippetState.ranges # tr.value.ranges
  /\ ~InsideField(tr.t.selection.ranges, tr.value.ranges, tr.value.active)

\* C28: whenever the snippet state is active on field k some range belongs
\* to field k+1, and so the selection Tab dispatches is never built from zero
\* ranges.
C28_ActiveFieldNotLast ==
  /\ ~snippetState.null => HasField(snippetState.ranges, snippetState.active + 1)
  /\ tr.cmd = "moveField" /\ tr.dir = 1 => Len(tr.t.selection.ranges) > 0

\* The fields that carry a number are in ascending order of it, and the
\* fields that carry none are in the textual order of their first placeholder.
FieldsOrdered(fields) ==
  \A i \in 1..Len(fields) : \A j \in (i + 1)..Len(fields) :
    /\ ~fields[i].seq.null /\ ~fields[j].seq.null => fields[i].seq.n <= fields[j].seq.n
    /\ fields[i].seq.null /\ fields[j].seq.null =>
         fields[i].positions[1].from <= fields[j].positions[1].from

\* C21: Snippet.parse returns, for every template, fields in which the
\* numbered ones ascend by number and the unnumbered ones follow the text.
C21_ParseOrdersFields ==
  last.op = "parse" => ~last.threw /\ FieldsOrdered(last.parsed.fields)

\* C22: what takeFromHeap returns is minimal under compareHeapable among
\* the elements the heap held.
C22_TakeReturnsMinimum ==
  last.op = "takeFromHeap" =>
    \A i \in 1..Len(last.heapBefore) :
      compareHeapable(last.taken[1], last.heapBefore[i]) <= 0

\* What map makes of the i-th child of node: where the child starts and
\* ends after the changes, and the size it is left with.
MappedChild(node, changes, i) ==
  LET oldPos == SumLengths(node.children, 1) - SumLengths(node.children, i)
      oldChildEnd == oldPos + node.children[i].length
      newPos == IF i = 1 THEN 0 ELSE mapPos(oldPos, changes, 1)
      newChildEnd == mapPos(oldChildEnd, changes, 1)
  IN [length |-> newChildEnd - newPos,
      size |-> IF touchesChange(oldPos, oldChildEnd, changes)
               THEN mapInner(node.children[i], changes, oldPos, newPos, newChildEnd).set.size
               ELSE node.children[i].size]

\* The children after the first that map leaves without decorations.
Emptied(node, changes) ==
  { i \in 2..Len(node.children) :
      node.children[i].size > 0 /\ MappedChild(node, changes, i).size = 0 }

\* C23: when map empties a child after the first and the child keeps some
\* length, map returns, the emptied children are gone, and the lengths of
\* the children left add up to the mapped length of all children.
C23_DroppedChildDonatesLength ==
  /\ last.op = "map" /\ ~last.same
  /\ \E i \in Emptied(last.prev, last.changes) :
        MappedChild(last.prev, last.changes, i).length > 0
  => /\ ~last.threw
     /\ Len(set.children) <= Len(last.prev.children)
                               - Cardinality(Emptied(last.prev, last.changes))
     /\ SumLengths(set.children, 1)
          = mapPos(SumLengths(last.prev.children, 1), last.changes, 1)

\* C24: rebalanceChildren returns, and leaves every decoration once at the
\* absolute position it had and the child lengths with the sum they had.
C24_RebalanceKeepsContent ==
  last.op = "rebalanceChildren" =>
    /\ ~last.threw
    /\ BagOf(Absolute(last.sets[1], 0)) = BagOf(Absolute(last.prev, 0))
    /\ SumLengths(last.sets[1].children, 1) = SumLengths(last.prev.children, 1)

\* The LocalSets of a tree: one for every node with locals, at the node's
\* absolute start, each node before its children and these left to right;
\* the back-pointer is set (1) when the node has no children.
RECURSIVE LocalSetsOf(_, _)
RECURSIVE LocalSetsOfChildren(_, _, _)
LocalSetsOf(node, offset) ==
  (IF Len(node.local) > 0
   THEN <<LocalSet(offset, node.local, IF Len(node.children) = 0 THEN 1 ELSE 0)>>
   ELSE <<>>)
  \o LocalSetsOfChildren(node.children, 1, offset)

LocalSetsOfChildren(children, i, offset) ==
  IF i > Len(children) THEN <<>>
  ELSE LocalSetsOf(children[i], offset)
       \o LocalSetsOfChildren(children, i + 1, offset + children[i].length)

RECURSIVE Yielded(_, _)
Yielded(sets, i) ==
  IF i > Len(sets) THEN 0 ELSE Len(sets[i].decorations) + Yielded(sets, i + 1)

RECURSIVE Reach(_, _, _, _)
RECURSIVE ReachChildren(_, _, _, _, _)
Reach(node, offset, skip, orEqual) ==
  IF Len(node.local) > 0
  THEN [found |-> TRUE, offset |-> offset, local |-> node.local, skip |-> skip]
  ELSE ReachChildren(node.children, 1, offset, skip, orEqual)

ReachChildren(children, i, offset, skip, orEqual) ==
  IF i > Len(children)
  THEN [found |-> FALSE, offset |-> 0, local |-> <<>>, skip |-> skip]
  ELSE IF children[i].length < skip \/ (orEqual /\ children[i].length = skip)
  THEN ReachChildren(children, i + 1, offset + children[i].length,
                     skip - children[i].length, orEqual)
  ELSE LET below(r) ==
             IF r.found THEN r
             ELSE ReachChildren(children, i + 1, offset + children[i].length,
                                r.skip, orEqual)
       IN below(Reach(children[i], offset, skip, orEqual))

\* The first call of next on a new iterator returned what r describes.
Returned(r) ==
  IF r.found
  THEN /\ Len(last.yielded) = 1
       /\ last.yielded[1].offset = r.offset
       /\ last.yielded[1].decorations = r.local
  ELSE last.done

FirstNext == last.op = "next" /\ Len(last.skips) = 1

\* C26 as stated: next(skip) bypasses every child whose length is <= the
\* skip left and descends only into longer ones.
C26_BypassesNotLonger ==
  FirstNext => Returned(Reach(set, 0, last.skips[1], TRUE))

\* C26: next(skip) bypasses every child whose length is below the skip
\* left, reducing the skip by that length, and descends into every child
\* at least as long as the skip left.
C26_BypassesShorter ==
  FirstNext => Returned(Reach(set, 0, last.skips[1], FALSE))

\* A child exactly as long as the skip was descended into, and another was
\* bypassed before it.
C26_Witness ==
  /\ FirstNext
  /\ last.skips[1] > 0
  /\ Len(set.local) = 0
  /\ Len(last.yielded) = 1
  /\ \E i \in 2..Len(set.children) :
        /\ last.yielded[1].offset = SumLengths(set.children, 1) - SumLengths(set.children, i)
        /\ last.yielded[1].decorations = set.children[i].local
        /\ set.children[i].length = last.skips[1] - last.yielded[1].offset
        /\ last.yielded[1].offset > 0

\* The calls of next follow addIterToHeap under decoratedSpansInRange: each
\* has the seeding skip until a LocalSet with a back-pointer was returned,
\* and skip 0 (re-seeding) after that.
RECURSIVE SeedingSkips(_)
SeedingSkips(k) ==
  IF k > Len(last.skips) THEN TRUE
  ELSE /\ last.skips[k] =
            (IF \E j \in 1..Min(k - 1, Len(last.yielded)) : last.yielded[j].next # 0
             THEN 0 ELSE last.skips[1])
       /\ SeedingSkips(k + 1)

\* The decorations of the LocalSets, at their absolute positions.
RECURSIVE YieldedDecorations(_, _)
YieldedDecorations(sets, i) ==
  IF i > Len(sets) THEN <<>>
  ELSE [k \in 1..Len(sets[i].decorations) |-> move(sets[i].decorations[k], sets[i].offset)]
       \o YieldedDecorations(sets, i + 1)

\* C27: seeding with skip = from and re-seeding until the iterator is
\* exhausted reaches every range decoration with affectsSpans that extends
\* beyond from (and so intersects [from, set.length]); none is skipped.
C27_SkippingReachesEveryRange ==
  last.op = "next" /\ last.done /\ SeedingSkips(1) =>
    \A k \in 1..Len(Absolute(set, 0)) :
       LET d == Absolute(set, 0)[k]
       IN d.desc.kind = "range" /\ d.desc.affectsSpans /\ d.to > last.skips[1]
          => \E j \in 1..Len(YieldedDecorations(last.yielded, 1)) :
                YieldedDecorations(last.yielded, 1)[j] = d

====
